---- MODULE Spec2Model ----
(***************************************************************************)
(* A model of the diff engine of diff-match-patch-ts                       *)
(* (src/src/DiffMatchPatch.ts).                                            *)
(*                                                                         *)
(* A string is a sequence of UTF-16 code units (natural numbers); JS       *)
(* indices are 0-based, so s.charAt(i) is s[i + 1].  A Diff is the pair    *)
(* <<op, text>> of the source's [op, text]; a script is a sequence of      *)
(* Diffs.  The wall clock is the variable now: Date.now() returns it, and  *)
(* every reading is followed by the passing of one tick, so a deadline d   *)
(* lets exactly the readings with now <= d through.  Methods that read     *)
(* the clock return [diffs, now]: the script and the clock afterwards.     *)
(***************************************************************************)
EXTENDS Integers, Sequences, FiniteSets, TLC

VARIABLES
    Diff_Timeout,    \* instance field: seconds before the bisector bails out
    Diff_EditCost,   \* instance field: the cost of an empty edit operation
    Match_Threshold, \* instance field: the score beyond which no match
    Match_Distance,  \* instance field: how far to search for a match
    match_text,      \* argument text of match_main
    match_pattern,   \* argument pattern of match_main
    pc,              \* "ready", or the name of the method that has returned
    text1,           \* argument text1 of the call; the source text of diffs
    text2,           \* argument text2 of the call; the destination text
    opt_checklines,  \* <<>> (undefined) or <<boolean>>
    opt_deadline,    \* <<>> (undefined) or <<timestamp>>
    now,             \* the wall clock, in ticks
    diffs,           \* the script held by the caller (argument and result)
    delta,           \* the delta text of diff_toDelta / diff_fromDelta
    loc,             \* argument loc of diff_xIndex and of match_main
    ret,             \* the value returned, or the error thrown, by the call
    expired          \* diff_bisect_ left its loop at the deadline check

vars == <<Diff_Timeout, Diff_EditCost, Match_Threshold, Match_Distance,
          match_text, match_pattern, pc, text1, text2, opt_checklines,
          opt_deadline, now, diffs, delta, loc, ret, expired>>

----------------------------------------------------------------------------
(* types.ts (DiffOperation) and utils/math.ts                              *)

DIFF_DELETE == "DELETE"
DIFF_INSERT == "INSERT"
DIFF_EQUAL == "EQUAL"

math_max(a, b) == IF a > b THEN a ELSE b
math_min(a, b) == IF a < b THEN a ELSE b

----------------------------------------------------------------------------
(* The String methods the source uses                                      *)

\* An index argument of substring: values below 0 or above the length are
\* clamped.
ClampIndex(i, n) == IF i < 0 THEN 0 ELSE IF i > n THEN n ELSE i

\* s.substring(a, b): the arguments are clamped and swapped when a > b.
substring(s, a, b) ==
    LET x == ClampIndex(a, Len(s))
        y == ClampIndex(b, Len(s))
    IN  IF x <= y THEN SubSeq(s, x + 1, y) ELSE SubSeq(s, y + 1, x)

\* s.substring(a)
substringFrom(s, a) == substring(s, a, Len(s))

\* s.charAt(i): the empty string when i is out of range.
charAt(s, i) == IF i >= 0 /\ i < Len(s) THEN <<s[i + 1]>> ELSE <<>>

\* s.indexOf(pattern, from): the first index >= from at which pattern occurs,
\* or -1.
indexOf(s, pattern, from) ==
    LET start == ClampIndex(from, Len(s))
        last == Len(s) - Len(pattern)
        occurs(i) == SubSeq(s, i + 1, i + Len(pattern)) = pattern
    IN  IF \E i \in start..last : occurs(i)
        THEN CHOOSE i \in start..last :
                 occurs(i) /\ \A j \in start..(i - 1) : ~occurs(j)
        ELSE -1

----------------------------------------------------------------------------
(* diff_commonPrefix, diff_commonSuffix                                    *)

RECURSIVE commonPrefixSearch(_, _, _, _, _, _)
commonPrefixSearch(t1, t2, pointermin, pointermax, pointermid, pointerstart) ==
    IF ~(pointermin < pointermid) THEN pointermid
    ELSE IF substring(t1, pointerstart, pointermid)
              = substring(t2, pointerstart, pointermid)
         THEN commonPrefixSearch(t1, t2, pointermid, pointermax,
                  (pointermax - pointermid) \div 2 + pointermid, pointermid)
         ELSE commonPrefixSearch(t1, t2, pointermin, pointermid,
                  (pointermid - pointermin) \div 2 + pointermin, pointerstart)

\* A diff_commonPrefix that takes the shorter length for the common prefix
\* without comparing the texts.
commonPrefix_unchecked(t1, t2) == math_min(Len(t1), Len(t2))

diff_commonPrefix(t1, t2) ==
    IF t1 = <<>> \/ t2 = <<>> \/ charAt(t1, 0) # charAt(t2, 0) THEN 0
    ELSE LET pointermax == math_min(Len(t1), Len(t2))
         IN  commonPrefixSearch(t1, t2, 0, pointermax, pointermax, 0)

RECURSIVE commonSuffixSearch(_, _, _, _, _, _)
commonSuffixSearch(t1, t2, pointermin, pointermax, pointermid, pointerend) ==
    IF ~(pointermin < pointermid) THEN pointermid
    ELSE IF substring(t1, Len(t1) - pointermid, Len(t1) - pointerend)
              = substring(t2, Len(t2) - pointermid, Len(t2) - pointerend)
         THEN commonSuffixSearch(t1, t2, pointermid, pointermax,
                  (pointermax - pointermid) \div 2 + pointermid, pointermid)
         ELSE commonSuffixSearch(t1, t2, pointermin, pointermid,
                  (pointermid - pointermin) \div 2 + pointermin, pointerend)

\* A diff_commonSuffix that compares the last code units only.
commonSuffix_lastOnly(t1, t2) ==
    IF t1 = <<>> \/ t2 = <<>>
       \/ charAt(t1, Len(t1) - 1) # charAt(t2, Len(t2) - 1) THEN 0 ELSE 1

diff_commonSuffix(t1, t2) ==
    IF t1 = <<>> \/ t2 = <<>>
       \/ charAt(t1, Len(t1) - 1) # charAt(t2, Len(t2) - 1) THEN 0
    ELSE LET pointermax == math_min(Len(t1), Len(t2))
         IN  commonSuffixSearch(t1, t2, 0, pointermax, pointermax, 0)

----------------------------------------------------------------------------
(* Array.prototype.splice, diff_text1, diff_text2                          *)

\* a.splice(start, deleteCount, ...items), as the array afterwards.
splice(a, start, deleteCount, items) ==
    SubSeq(a, 1, start) \o items \o SubSeq(a, start + deleteCount + 1, Len(a))

\* a[i] = v
setAt(a, i, v) == [a EXCEPT ![i + 1] = v]

RECURSIVE joinTexts(_, _, _)
joinTexts(ds, skip, x) ==
    IF x > Len(ds) THEN <<>>
    ELSE (IF ds[x][1] # skip THEN ds[x][2] ELSE <<>>) \o joinTexts(ds, skip, x + 1)

diff_text1(ds) == joinTexts(ds, DIFF_INSERT, 1)

diff_text2(ds) == joinTexts(ds, DIFF_DELETE, 1)

----------------------------------------------------------------------------
(* diff_cleanupMerge                                                       *)

\* The loop state of the first pass: the script, the 0-based pointer and the
\* run accumulated since the last equality.
MergeStart(ds) ==
    [diffs |-> Append(ds, <<DIFF_EQUAL, <<>>>>), pointer |-> 0,
     count_delete |-> 0, count_insert |-> 0,
     text_delete |-> <<>>, text_insert |-> <<>>]

\* "Factor out any common prefixes."
MergeFactorPrefix(st) ==
    LET commonlength == diff_commonPrefix(st.text_insert, st.text_delete)
        before == st.pointer - st.count_delete - st.count_insert
    IN  IF commonlength = 0 THEN st
        ELSE LET moved ==
                   IF before > 0 /\ st.diffs[before][1] = DIFF_EQUAL
                   THEN [st EXCEPT !.diffs = setAt(@, before - 1,
                            <<DIFF_EQUAL, st.diffs[before][2]
                               \o substring(st.text_insert, 0, commonlength)>>)]
                   ELSE [st EXCEPT !.diffs = splice(@, 0, 0,
                            <<<<DIFF_EQUAL,
                                substring(st.text_insert, 0, commonlength)>>>>),
                                   !.pointer = @ + 1]
             IN  [moved EXCEPT
                    !.text_insert = substringFrom(@, commonlength),
                    !.text_delete = substringFrom(@, commonlength)]

\* A factoring that cuts the common suffix off the run and drops it.
MergeFactorSuffix_lost(st) ==
    [st EXCEPT
        !.text_insert = substring(@, 0,
            Len(@) - diff_commonSuffix(st.text_insert, st.text_delete)),
        !.text_delete = substring(@, 0,
            Len(@) - diff_commonSuffix(st.text_insert, st.text_delete))]

\* "Factor out any common suffixes."
MergeFactorSuffix(st) ==
    LET commonlength == diff_commonSuffix(st.text_insert, st.text_delete)
        li == Len(st.text_insert)
        ld == Len(st.text_delete)
    IN  IF commonlength = 0 THEN st
        ELSE [st EXCEPT
                !.diffs = setAt(@, st.pointer,
                    <<st.diffs[st.pointer + 1][1],
                      substringFrom(st.text_insert, li - commonlength)
                         \o st.diffs[st.pointer + 1][2]>>),
                !.text_insert = substring(@, 0, li - commonlength),
                !.text_delete = substring(@, 0, ld - commonlength)]

\* "Delete the offending records and add the merged ones."
MergeReplaceRun(st) ==
    LET p0 == st.pointer - (st.count_delete + st.count_insert)
        d0 == splice(st.diffs, p0, st.count_delete + st.count_insert, <<>>)
        hasDel == Len(st.text_delete) # 0
        d1 == IF hasDel
              THEN splice(d0, p0, 0, <<<<DIFF_DELETE, st.text_delete>>>>)
              ELSE d0
        p1 == IF hasDel THEN p0 + 1 ELSE p0
        hasIns == Len(st.text_insert) # 0
        d2 == IF hasIns
              THEN splice(d1, p1, 0, <<<<DIFF_INSERT, st.text_insert>>>>)
              ELSE d1
        p2 == IF hasIns THEN p1 + 1 ELSE p1
    IN  [st EXCEPT !.diffs = d2, !.pointer = p2 + 1]

\* The reset of the counters at the end of case DIFF_EQUAL.
MergeReset(st) ==
    [st EXCEPT !.count_insert = 0, !.count_delete = 0,
               !.text_delete = <<>>, !.text_insert = <<>>]

\* case DIFF_EQUAL of the first pass.
MergeEquality(st) ==
    IF st.count_delete + st.count_insert > 1
    THEN MergeReset(MergeReplaceRun(
            IF st.count_delete # 0 /\ st.count_insert # 0
            THEN MergeFactorSuffix(MergeFactorPrefix(st))
            ELSE st))
    ELSE IF st.pointer # 0 /\ st.diffs[st.pointer][1] = DIFF_EQUAL
    THEN MergeReset([st EXCEPT
            !.diffs = splice(
                setAt(@, st.pointer - 1,
                      <<DIFF_EQUAL,
                        st.diffs[st.pointer][2] \o st.diffs[st.pointer + 1][2]>>),
                st.pointer, 1, <<>>)])
    ELSE MergeReset([st EXCEPT !.pointer = @ + 1])

\* The first pass: while (pointer < diffs.length) switch (diffs[pointer][0]).
RECURSIVE MergeFirstPass(_)
MergeFirstPass(st) ==
    IF ~(st.pointer < Len(st.diffs)) THEN st.diffs
    ELSE LET d == st.diffs[st.pointer + 1]
         IN  IF d[1] = DIFF_INSERT
             THEN MergeFirstPass([st EXCEPT !.count_insert = @ + 1,
                                            !.text_insert = @ \o d[2],
                                            !.pointer = @ + 1])
             ELSE IF d[1] = DIFF_DELETE
             THEN MergeFirstPass([st EXCEPT !.count_delete = @ + 1,
                                            !.text_delete = @ \o d[2],
                                            !.pointer = @ + 1])
             ELSE MergeFirstPass(MergeEquality(st))

\* "Remove the dummy entry at the end."
MergeDropDummy(ds) ==
    IF ds[Len(ds)][2] = <<>> THEN SubSeq(ds, 1, Len(ds) - 1) ELSE ds

\* The second pass: shift a single edit between two equalities sideways.
\* Returns the script and whether a shift was made.
RECURSIVE MergeSecondPass(_, _, _)
MergeSecondPass(ds, pointer, changes) ==
    IF ~(pointer < Len(ds) - 1) THEN [diffs |-> ds, changes |-> changes]
    ELSE LET prev == ds[pointer]
             cur == ds[pointer + 1]
             next == ds[pointer + 2]
         IN  IF prev[1] = DIFF_EQUAL /\ next[1] = DIFF_EQUAL
             THEN IF substringFrom(cur[2], Len(cur[2]) - Len(prev[2])) = prev[2]
                  THEN MergeSecondPass(
                         splice(ds, pointer - 1, 3,
                            << <<cur[1], prev[2] \o substring(cur[2], 0,
                                            Len(cur[2]) - Len(prev[2]))>>,
                               <<next[1], prev[2] \o next[2]>> >>),
                         pointer + 1, TRUE)
                  ELSE IF substring(cur[2], 0, Len(next[2])) = next[2]
                  THEN MergeSecondPass(
                         splice(ds, pointer - 1, 3,
                            << <<prev[1], prev[2] \o next[2]>>,
                               <<cur[1], substringFrom(cur[2], Len(next[2]))
                                            \o next[2]>> >>),
                         pointer + 1, TRUE)
                  ELSE MergeSecondPass(ds, pointer + 1, changes)
             ELSE MergeSecondPass(ds, pointer + 1, changes)

\* A diff_cleanupMerge that leaves the script as it is.
cleanupMerge_skipped(ds) == ds

RECURSIVE diff_cleanupMerge(_)
diff_cleanupMerge(ds) ==
    LET second == MergeSecondPass(
                     MergeDropDummy(MergeFirstPass(MergeStart(ds))), 1, FALSE)
    IN  IF second.changes THEN diff_cleanupMerge(second.diffs)
        ELSE second.diffs

----------------------------------------------------------------------------
(* diff_halfMatch_, diff_halfMatchI_                                       *)

\* The while loop of diff_halfMatchI_ over the occurrences j of the seed in
\* shorttext; best is <<longtext_a, longtext_b, shorttext_a, shorttext_b,
\* common>>.
RECURSIVE halfMatchScan(_, _, _, _, _, _)
halfMatchScan(longtext, shorttext, i, seed, j, best) ==
    IF j = -1 THEN best
    ELSE LET prefixLength == diff_commonPrefix(substringFrom(longtext, i),
                                               substringFrom(shorttext, j))
             suffixLength == diff_commonSuffix(substring(longtext, 0, i),
                                               substring(shorttext, 0, j))
             better ==
                 IF Len(best[5]) < suffixLength + prefixLength
                 THEN << substring(longtext, 0, i - suffixLength),
                         substringFrom(longtext, i + prefixLength),
                         substring(shorttext, 0, j - suffixLength),
                         substringFrom(shorttext, j + prefixLength),
                         substring(shorttext, j - suffixLength, j)
                            \o substring(shorttext, j, j + prefixLength) >>
                 ELSE best
         IN  halfMatchScan(longtext, shorttext, i, seed,
                           indexOf(shorttext, seed, j + 1), better)

\* Returns <<>> for null, else the five-element array.
diff_halfMatchI_(longtext, shorttext, i) ==
    LET seed == substring(longtext, i, i + Len(longtext) \div 4)
        best == halfMatchScan(longtext, shorttext, i, seed,
                              indexOf(shorttext, seed, 0),
                              << <<>>, <<>>, <<>>, <<>>, <<>> >>)
    IN  IF Len(best[5]) * 2 >= Len(longtext) THEN best ELSE <<>>

\* A return that keeps the order of the longer and the shorter text.
halfMatchOrient_kept(t1, t2, hm) == hm

\* "A half-match was found, sort out the return data": hm is the longer
\* of the two matches, in terms of longtext and shorttext.
halfMatchOrient(t1, t2, hm) ==
    IF Len(t1) > Len(t2)
    THEN <<hm[1], hm[2], hm[3], hm[4], hm[5]>>
    ELSE <<hm[3], hm[4], hm[1], hm[2], hm[5]>>

\* diff_halfMatch_ after the two calls of diff_halfMatchI_ returned hm1 and
\* hm2.
halfMatchPick(t1, t2, hm1, hm2) ==
    IF hm1 = <<>> /\ hm2 = <<>> THEN <<>>
    ELSE halfMatchOrient(t1, t2,
             IF hm2 = <<>> THEN hm1
             ELSE IF hm1 = <<>> THEN hm2
             ELSE IF Len(hm1[5]) > Len(hm2[5]) THEN hm1 ELSE hm2)

\* A diff_halfMatch_ that probes the second quarter only.
halfMatchQuarters_oneSeed(t1, t2, longtext, shorttext) ==
    IF Len(longtext) < 4 \/ Len(shorttext) * 2 < Len(longtext)
    THEN <<>>
    ELSE halfMatchPick(t1, t2,
             diff_halfMatchI_(longtext, shorttext, (Len(longtext) + 3) \div 4),
             <<>>)

\* "First check if the second quarter is the seed for a half-match", then
\* "Check again based on the third quarter".
halfMatchQuarters(t1, t2, longtext, shorttext) ==
    IF Len(longtext) < 4 \/ Len(shorttext) * 2 < Len(longtext)
    THEN <<>>
    ELSE halfMatchPick(t1, t2,
             diff_halfMatchI_(longtext, shorttext, (Len(longtext) + 3) \div 4),
             diff_halfMatchI_(longtext, shorttext, (Len(longtext) + 1) \div 2))

\* Returns <<>> for null, else <<text1_a, text1_b, text2_a, text2_b,
\* mid_common>>.
diff_halfMatch_(t1, t2) ==
    IF Diff_Timeout <= 0 THEN <<>>
    ELSE halfMatchQuarters(t1, t2,
                           IF Len(t1) > Len(t2) THEN t1 ELSE t2,
                           IF Len(t1) > Len(t2) THEN t2 ELSE t1)

----------------------------------------------------------------------------
(* diff_commonOverlap_                                                     *)

\* A search that stops at the first overlap it finds.
commonOverlapGrow_once(t1, t2, text_length, best, length) ==
    IF indexOf(t2, substringFrom(t1, text_length - length), 0) = 0
    THEN length ELSE best

RECURSIVE commonOverlapGrow(_, _, _, _, _)
commonOverlapGrow(t1, t2, text_length, best, length) ==
    LET pattern == substringFrom(t1, text_length - length)
        found == indexOf(t2, pattern, 0)
        grown == length + found
    IN  IF found = -1 THEN best
        ELSE IF found = 0 \/ substringFrom(t1, text_length - grown)
                               = substring(t2, 0, grown)
        THEN commonOverlapGrow(t1, t2, text_length, grown, grown + 1)
        ELSE commonOverlapGrow(t1, t2, text_length, best, grown)

diff_commonOverlap_(t1, t2) ==
    LET text1_length == Len(t1)
        text2_length == Len(t2)
        cut1 == IF text1_length > text2_length
                THEN substringFrom(t1, text1_length - text2_length) ELSE t1
        cut2 == IF text1_length < text2_length
                THEN substring(t2, 0, text1_length) ELSE t2
        text_length == math_min(text1_length, text2_length)
    IN  IF text1_length = 0 \/ text2_length = 0 THEN 0
        ELSE IF cut1 = cut2 THEN text_length
        ELSE commonOverlapGrow(cut1, cut2, text_length, 0, 1)

----------------------------------------------------------------------------
(* constants.ts (src/unnamed/part_000) and diff_cleanupSemanticScore_      *)

\* /[^a-zA-Z0-9]/ on one code unit
nonAlphaNumericRegex_(c) ==
    ~(c \in 48..57 \/ c \in 65..90 \/ c \in 97..122)

\* /\s/ on one code unit: the white space and line terminators of ECMAScript
whitespaceRegex_(c) ==
    \/ c \in {9, 10, 11, 12, 13, 32, 160, 5760, 8232, 8233, 8239, 8287,
              12288, 65279}
    \/ c \in 8192..8202

\* /[\r\n]/ on one code unit
linebreakRegex_(c) == c \in {10, 13}

\* A pattern that no text ends with.
blanklineEnd_never(s) == FALSE

\* /\n\r?\n$/
blanklineEndRegex_(s) ==
    LET n == Len(s)
    IN  \/ n >= 2 /\ s[n] = 10 /\ s[n - 1] = 10
        \/ n >= 3 /\ s[n] = 10 /\ s[n - 1] = 13 /\ s[n - 2] = 10

\* /^\r?\n\r?\n/
blanklineStartRegex_(s) ==
    LET rest == IF Len(s) >= 1 /\ s[1] = 13 THEN Tail(s) ELSE s
        n == Len(rest)
    IN  /\ n >= 2
        /\ rest[1] = 10
        /\ \/ rest[2] = 10
           \/ n >= 3 /\ rest[2] = 13 /\ rest[3] = 10

diff_cleanupSemanticScore_(one, two) ==
    IF one = <<>> \/ two = <<>> THEN 6
    ELSE LET char1 == one[Len(one)]
             char2 == two[1]
             nonAlphaNumeric1 == nonAlphaNumericRegex_(char1)
             nonAlphaNumeric2 == nonAlphaNumericRegex_(char2)
             whitespace1 == nonAlphaNumeric1 /\ whitespaceRegex_(char1)
             whitespace2 == nonAlphaNumeric2 /\ whitespaceRegex_(char2)
             lineBreak1 == whitespace1 /\ linebreakRegex_(char1)
             lineBreak2 == whitespace2 /\ linebreakRegex_(char2)
             blankLine1 == lineBreak1 /\ blanklineEndRegex_(one)
             blankLine2 == lineBreak2 /\ blanklineStartRegex_(two)
         IN  IF blankLine1 \/ blankLine2 THEN 5
             ELSE IF lineBreak1 \/ lineBreak2 THEN 4
             ELSE IF nonAlphaNumeric1 /\ ~whitespace1 /\ whitespace2 THEN 3
             ELSE IF whitespace1 \/ whitespace2 THEN 2
             ELSE IF nonAlphaNumeric1 \/ nonAlphaNumeric2 THEN 1
             ELSE 0

----------------------------------------------------------------------------
(* diff_cleanupSemanticLossless                                            *)

\* "First, shift the edit as far left as possible": <<equality1, edit,
\* equality2>> afterwards.
LosslessShiftLeft(equality1, edit, equality2) ==
    LET commonOffset == diff_commonSuffix(equality1, edit)
        commonString == substringFrom(edit, Len(edit) - commonOffset)
    IN  IF commonOffset # 0
        THEN << substring(equality1, 0, Len(equality1) - commonOffset),
                commonString \o substring(edit, 0, Len(edit) - commonOffset),
                commonString \o equality2 >>
        ELSE <<equality1, edit, equality2>>

\* "Second, step character by character right, looking for the best fit":
\* cur and best are <<equality1, edit, equality2>>, and edit and equality2 are
\* not both empty.
RECURSIVE LosslessStepRight(_, _, _)
LosslessStepRight(cur, best, bestScore) ==
    IF charAt(cur[2], 0) # charAt(cur[3], 0) THEN best
    ELSE LET equality1 == cur[1] \o charAt(cur[2], 0)
             edit == substringFrom(cur[2], 1) \o charAt(cur[3], 0)
             equality2 == substringFrom(cur[3], 1)
             score == diff_cleanupSemanticScore_(equality1, edit)
                        + diff_cleanupSemanticScore_(edit, equality2)
             step == <<equality1, edit, equality2>>
         IN  IF score >= bestScore
             THEN LosslessStepRight(step, step, score)
             ELSE LosslessStepRight(step, best, bestScore)

\* "We have an improvement, save it back to the diff": the script and the
\* pointer afterwards.
LosslessSave(ds, pointer, best) ==
    LET a == IF best[1] # <<>>
             THEN [diffs |-> setAt(ds, pointer - 1, <<ds[pointer][1], best[1]>>),
                   pointer |-> pointer]
             ELSE [diffs |-> splice(ds, pointer - 1, 1, <<>>),
                   pointer |-> pointer - 1]
        b == setAt(a.diffs, a.pointer,
                   <<a.diffs[a.pointer + 1][1], best[2]>>)
    IN  IF best[3] # <<>>
        THEN [diffs |-> setAt(b, a.pointer + 1,
                              <<b[a.pointer + 2][1], best[3]>>),
              pointer |-> a.pointer]
        ELSE [diffs |-> splice(b, a.pointer + 1, 1, <<>>),
              pointer |-> a.pointer - 1]

RECURSIVE LosslessLoop(_, _)

\* The rest of an iteration at a single edit surrounded by equalities, once
\* the edit is shifted left.  "while (edit.charAt(0) === equality2.charAt(0))"
\* does not end when edit and equality2 are both empty: charAt gives "" for
\* both, and the body changes neither.
LosslessFit(ds, pointer, left) ==
    IF left[2] = <<>> /\ left[3] = <<>>
    THEN [returns |-> FALSE, diffs |-> ds]
    ELSE LET best == LosslessStepRight(left, left,
                        diff_cleanupSemanticScore_(left[1], left[2])
                          + diff_cleanupSemanticScore_(left[2], left[3]))
         IN  IF ds[pointer][2] # best[1]
             THEN LET saved == LosslessSave(ds, pointer, best)
                  IN  LosslessLoop(saved.diffs, saved.pointer + 1)
             ELSE LosslessLoop(ds, pointer + 1)

\* The loop of diff_cleanupSemanticLossless: [returns, diffs], the script at
\* the return, or at the iteration that does not end.
LosslessLoop(ds, pointer) ==
    IF ~(pointer < Len(ds) - 1) THEN [returns |-> TRUE, diffs |-> ds]
    ELSE IF ds[pointer][1] = DIFF_EQUAL /\ ds[pointer + 2][1] = DIFF_EQUAL
    THEN LosslessFit(ds, pointer,
             LosslessShiftLeft(ds[pointer][2], ds[pointer + 1][2],
                               ds[pointer + 2][2]))
    ELSE LosslessLoop(ds, pointer + 1)

\* Returns [returns, diffs].
diff_cleanupSemanticLossless(ds) == LosslessLoop(ds, 1)

----------------------------------------------------------------------------
(* diff_cleanupSemantic                                                    *)

\* A JS array used as a stack with its own length counter: a map from the
\* indices (property names) that were assigned to their values.
ArrayPut(a, i, v) == [j \in (DOMAIN a) \cup {i} |-> IF j = i THEN v ELSE a[j]]

\* lastEquality is <<>> (null) or <<text>>; JS truthiness of it.
Truthy(lastEquality) == lastEquality # <<>> /\ lastEquality[1] # <<>>

SemanticStart(ds) ==
    [diffs |-> ds, changes |-> FALSE, equalities |-> <<>>,
     equalitiesLength |-> 0, lastEquality |-> <<>>, pointer |-> 0,
     length_insertions1 |-> 0, length_deletions1 |-> 0,
     length_insertions2 |-> 0, length_deletions2 |-> 0]

\* "Equality found."
SemanticPush(st) ==
    [st EXCEPT !.equalities = ArrayPut(@, st.equalitiesLength, st.pointer),
               !.equalitiesLength = @ + 1,
               !.length_insertions1 = st.length_insertions2,
               !.length_deletions1 = st.length_deletions2,
               !.length_insertions2 = 0,
               !.length_deletions2 = 0,
               !.lastEquality = <<st.diffs[st.pointer + 1][2]>>]

\* "An insertion or deletion": the counters afterwards.
SemanticCount(st) ==
    LET d == st.diffs[st.pointer + 1]
    IN  IF d[1] = DIFF_INSERT
        THEN [st EXCEPT !.length_insertions2 = @ + Len(d[2])]
        ELSE [st EXCEPT !.length_deletions2 = @ + Len(d[2])]

\* An elimination that changes the equality to an insertion and adds no
\* deletion.
SemanticEliminate_noDuplicate(st) ==
    LET top == st.equalities[st.equalitiesLength - 1]
        ins == setAt(st.diffs, top, <<DIFF_INSERT, st.lastEquality[1]>>)
        len == st.equalitiesLength - 2
    IN  [st EXCEPT !.diffs = ins,
                   !.equalitiesLength = len,
                   !.pointer = IF len > 0 THEN st.equalities[len - 1] ELSE -1,
                   !.length_insertions1 = 0,
                   !.length_deletions1 = 0,
                   !.length_insertions2 = 0,
                   !.length_deletions2 = 0,
                   !.lastEquality = <<>>,
                   !.changes = TRUE]

\* "Eliminate an equality that is smaller or equal to the edits on both sides
\* of it."
SemanticEliminate(st) ==
    LET top == st.equalities[st.equalitiesLength - 1]
        dup == splice(st.diffs, top, 0, <<<<DIFF_DELETE, st.lastEquality[1]>>>>)
        ins == setAt(dup, top + 1, <<DIFF_INSERT, dup[top + 2][2]>>)
        len == st.equalitiesLength - 2
    IN  [st EXCEPT !.diffs = ins,
                   !.equalitiesLength = len,
                   !.pointer = IF len > 0 THEN st.equalities[len - 1] ELSE -1,
                   !.length_insertions1 = 0,
                   !.length_deletions1 = 0,
                   !.length_insertions2 = 0,
                   !.length_deletions2 = 0,
                   !.lastEquality = <<>>,
                   !.changes = TRUE]

\* The first loop of diff_cleanupSemantic; returns the final loop state.
RECURSIVE SemanticScan(_)
SemanticScan(st) ==
    IF ~(st.pointer < Len(st.diffs)) THEN st
    ELSE IF st.diffs[st.pointer + 1][1] = DIFF_EQUAL
    THEN SemanticScan([SemanticPush(st) EXCEPT !.pointer = @ + 1])
    ELSE LET c == SemanticCount(st)
         IN  IF /\ Truthy(c.lastEquality)
                /\ Len(c.lastEquality[1])
                     <= math_max(c.length_insertions1, c.length_deletions1)
                /\ Len(c.lastEquality[1])
                     <= math_max(c.length_insertions2, c.length_deletions2)
             THEN SemanticScan([SemanticEliminate(c) EXCEPT !.pointer = @ + 1])
             ELSE SemanticScan([c EXCEPT !.pointer = @ + 1])

\* "Find any overlaps between deletions and insertions."
RECURSIVE SemanticOverlaps(_, _)
SemanticOverlaps(ds, pointer) ==
    IF ~(pointer < Len(ds)) THEN ds
    ELSE IF ds[pointer][1] = DIFF_DELETE /\ ds[pointer + 1][1] = DIFF_INSERT
    THEN LET deletion == ds[pointer][2]
             insertion == ds[pointer + 1][2]
             overlap_length1 == diff_commonOverlap_(deletion, insertion)
             overlap_length2 == diff_commonOverlap_(insertion, deletion)
         IN  IF overlap_length1 >= overlap_length2
             THEN IF \/ 2 * overlap_length1 >= Len(deletion)
                     \/ 2 * overlap_length1 >= Len(insertion)
                  THEN SemanticOverlaps(
                         splice(ds, pointer - 1, 2,
                           << <<DIFF_DELETE, substring(deletion, 0,
                                   Len(deletion) - overlap_length1)>>,
                              <<DIFF_EQUAL,
                                substring(insertion, 0, overlap_length1)>>,
                              <<DIFF_INSERT,
                                substringFrom(insertion, overlap_length1)>> >>),
                         pointer + 3)
                  ELSE SemanticOverlaps(ds, pointer + 2)
             ELSE IF \/ 2 * overlap_length2 >= Len(deletion)
                     \/ 2 * overlap_length2 >= Len(insertion)
                  THEN SemanticOverlaps(
                         splice(ds, pointer - 1, 2,
                           << <<DIFF_INSERT, substring(insertion, 0,
                                   Len(insertion) - overlap_length2)>>,
                              <<DIFF_EQUAL,
                                substring(deletion, 0, overlap_length2)>>,
                              <<DIFF_DELETE,
                                substringFrom(deletion, overlap_length2)>> >>),
                         pointer + 3)
                  ELSE SemanticOverlaps(ds, pointer + 2)
    ELSE SemanticOverlaps(ds, pointer + 1)

\* diff_cleanupSemantic after diff_cleanupSemanticLossless; equalitiesLength
\* is the counter as the first loop left it.
SemanticAfterLossless(lossless, equalitiesLength) ==
    [returns |-> lossless.returns,
     diffs |-> IF lossless.returns THEN SemanticOverlaps(lossless.diffs, 1)
               ELSE lossless.diffs,
     equalitiesLength |-> equalitiesLength]

\* diff_cleanupSemantic after its first loop: "Normalize the diff."
SemanticNormalize(scanned) ==
    SemanticAfterLossless(
        diff_cleanupSemanticLossless(
            IF scanned.changes THEN diff_cleanupMerge(scanned.diffs)
            ELSE scanned.diffs),
        scanned.equalitiesLength)

\* Returns [returns, diffs, equalitiesLength]: the script at the return and
\* the stack counter at the end of the first loop; returns is FALSE when the
\* call does not return.
diff_cleanupSemantic(ds) == SemanticNormalize(SemanticScan(SemanticStart(ds)))

-----------------------------------------------------------------------------
(* diff_cleanupEfficiency                                                  *)

EfficiencyStart(ds) ==
    [diffs |-> ds, changes |-> FALSE, equalities |-> <<>>,
     equalitiesLength |-> 0, lastEquality |-> <<>>, pointer |-> 0,
     pre_ins |-> FALSE, pre_del |-> FALSE,
     post_ins |-> FALSE, post_del |-> FALSE]

\* "Equality found": "Candidate found", or "Not a candidate, and can never
\* become one"; then post_ins = post_del = false.
EfficiencyEquality(st) ==
    IF /\ Len(st.diffs[st.pointer + 1][2]) < Diff_EditCost
       /\ (st.post_ins \/ st.post_del)
    THEN [st EXCEPT
             !.equalities = ArrayPut(@, st.equalitiesLength, st.pointer),
             !.equalitiesLength = @ + 1,
             !.pre_ins = st.post_ins,
             !.pre_del = st.post_del,
             !.lastEquality = <<st.diffs[st.pointer + 1][2]>>,
             !.post_ins = FALSE,
             !.post_del = FALSE]
    ELSE [st EXCEPT !.equalitiesLength = 0,
                    !.lastEquality = <<>>,
                    !.post_ins = FALSE,
                    !.post_del = FALSE]

\* "An insertion or deletion": the flags afterwards.
EfficiencyEdit(st) ==
    IF st.diffs[st.pointer + 1][1] = DIFF_DELETE
    THEN [st EXCEPT !.post_del = TRUE]
    ELSE [st EXCEPT !.post_ins = TRUE]

\* Number(b)
Number(b) == IF b THEN 1 ELSE 0

\* The condition of the "Five types to be split"; lastEquality.length <
\* Diff_EditCost / 2 is 2 * lastEquality.length < Diff_EditCost.
EfficiencySplits(st) ==
    /\ Truthy(st.lastEquality)
    /\ \/ st.pre_ins /\ st.pre_del /\ st.post_ins /\ st.post_del
       \/ /\ 2 * Len(st.lastEquality[1]) < Diff_EditCost
          /\ Number(st.pre_ins) + Number(st.pre_del)
               + Number(st.post_ins) + Number(st.post_del) = 3

\* A split that changes the equality to an insertion and adds no deletion.
EfficiencySplit_noDuplicate(st) ==
    LET top == st.equalities[st.equalitiesLength - 1]
        ins == setAt(st.diffs, top, <<DIFF_INSERT, st.lastEquality[1]>>)
        len == st.equalitiesLength - 2
    IN  IF st.pre_ins /\ st.pre_del
        THEN [st EXCEPT !.diffs = ins,
                        !.lastEquality = <<>>,
                        !.post_ins = TRUE,
                        !.post_del = TRUE,
                        !.equalitiesLength = 0,
                        !.changes = TRUE]
        ELSE [st EXCEPT !.diffs = ins,
                        !.lastEquality = <<>>,
                        !.equalitiesLength = len,
                        !.pointer = IF len > 0 THEN st.equalities[len - 1]
                                    ELSE -1,
                        !.post_ins = FALSE,
                        !.post_del = FALSE,
                        !.changes = TRUE]

\* "Duplicate record", "Change second copy to insert", and the stack and the
\* pointer afterwards.
EfficiencySplit(st) ==
    LET top == st.equalities[st.equalitiesLength - 1]
        dup == splice(st.diffs, top, 0, <<<<DIFF_DELETE, st.lastEquality[1]>>>>)
        ins == setAt(dup, top + 1, <<DIFF_INSERT, dup[top + 2][2]>>)
        len == st.equalitiesLength - 2
    IN  IF st.pre_ins /\ st.pre_del
        THEN [st EXCEPT !.diffs = ins,
                        !.lastEquality = <<>>,
                        !.post_ins = TRUE,
                        !.post_del = TRUE,
                        !.equalitiesLength = 0,
                        !.changes = TRUE]
        ELSE [st EXCEPT !.diffs = ins,
                        !.lastEquality = <<>>,
                        !.equalitiesLength = len,
                        !.pointer = IF len > 0 THEN st.equalities[len - 1]
                                    ELSE -1,
                        !.post_ins = FALSE,
                        !.post_del = FALSE,
                        !.changes = TRUE]

RECURSIVE EfficiencyScan(_)

\* The rest of an iteration at an insertion or deletion, once the flags are
\* set.
EfficiencyScanEdit(e) ==
    IF EfficiencySplits(e)
    THEN EfficiencyScan([EfficiencySplit(e) EXCEPT !.pointer = @ + 1])
    ELSE EfficiencyScan([e EXCEPT !.pointer = @ + 1])

\* The loop of diff_cleanupEfficiency; returns the final loop state.
EfficiencyScan(st) ==
    IF ~(st.pointer < Len(st.diffs)) THEN st
    ELSE IF st.diffs[st.pointer + 1][1] = DIFF_EQUAL
    THEN EfficiencyScan([EfficiencyEquality(st) EXCEPT !.pointer = @ + 1])
    ELSE EfficiencyScanEdit(EfficiencyEdit(st))

\* diff_cleanupEfficiency after its loop.
EfficiencyNormalize(scanned) ==
    [diffs |-> IF scanned.changes THEN diff_cleanupMerge(scanned.diffs)
               ELSE scanned.diffs,
     equalitiesLength |-> scanned.equalitiesLength]

\* Returns [diffs, equalitiesLength]: the script at the return and the stack
\* counter at the end of the loop.
diff_cleanupEfficiency(ds) ==
    EfficiencyNormalize(EfficiencyScan(EfficiencyStart(ds)))

----------------------------------------------------------------------------
(* diff_linesToChars_, diff_linesToCharsMunge_, diff_charsToLines_         *)

\* "hasOwnProperty", the method of Object.prototype that an own property of
\* lineHash with this name hides.
HasOwnProperty ==
    <<104, 97, 115, 79, 119, 110, 80, 114, 111, 112, 101, 114, 116, 121>>

\* "__proto__", the accessor of Object.prototype: assigning a number to it
\* changes nothing.
Proto == <<95, 95, 112, 114, 111, 116, 111, 95, 95>>

\* "lineHash[line] = n": lineHash is the function from its own property
\* names to their values.
lineHashPut(lineHash, line, n) ==
    IF line = Proto THEN lineHash
    ELSE [k \in DOMAIN lineHash \cup {line} |->
             IF k = line THEN n ELSE lineHash[k]]

\* The while loop of diff_linesToCharsMunge_; lineArray holds lineArray[0]
\* at position 1.  "lineHash.hasOwnProperty ? lineHash.hasOwnProperty(line)
\* : ..." calls a number once lineHash has a property "hasOwnProperty", and
\* the TypeError ends the call.
RECURSIVE linesToCharsMungeLoop(_, _, _, _, _, _, _)
linesToCharsMungeLoop(text, lineArray, lineHash, maxLines, chars, lineStart, lineEnd) ==
    IF ~(lineEnd < Len(text) - 1)
    THEN [error |-> "", chars |-> chars, lineArray |-> lineArray,
          lineHash |-> lineHash]
    ELSE IF HasOwnProperty \in DOMAIN lineHash
    THEN [error |-> "TypeError", chars |-> chars, lineArray |-> lineArray,
          lineHash |-> lineHash]
    ELSE LET found == indexOf(text, <<10>>, lineStart)
             lineEnd1 == IF found = -1 THEN Len(text) - 1 ELSE found
             line1 == substring(text, lineStart, lineEnd1 + 1)
             lineArrayLength == Len(lineArray)
             full == lineArrayLength = maxLines
             line2 == IF full THEN substringFrom(text, lineStart) ELSE line1
             lineEnd2 == IF full THEN Len(text) ELSE lineEnd1
         IN  IF line1 \in DOMAIN lineHash
             THEN linesToCharsMungeLoop(text, lineArray, lineHash, maxLines,
                      Append(chars, lineHash[line1]), lineEnd1 + 1, lineEnd1)
             ELSE linesToCharsMungeLoop(text, Append(lineArray, line2),
                      lineHashPut(lineHash, line2, lineArrayLength), maxLines,
                      Append(chars, lineArrayLength), lineEnd2 + 1, lineEnd2)

\* Returns [error, chars, lineArray, lineHash]: lineArray and lineHash as
\* the call leaves them.
diff_linesToCharsMunge_(text, lineArray, lineHash, maxLines) ==
    linesToCharsMungeLoop(text, lineArray, lineHash, maxLines, <<>>, 0, -1)

\* The result of diff_linesToChars_ from those of its two
\* diff_linesToCharsMunge_ calls.
linesToCharsSecond(m1, m2) ==
    [error |-> m2.error, chars1 |-> m1.chars, chars2 |-> m2.chars,
     lineArray |-> m2.lineArray]

\* diff_linesToChars_ after the first diff_linesToCharsMunge_ returned m1.
linesToCharsFirst(m1, t2, maxLines2) ==
    IF m1.error # ""
    THEN [error |-> m1.error, chars1 |-> m1.chars, chars2 |-> <<>>,
          lineArray |-> m1.lineArray]
    ELSE linesToCharsSecond(m1,
             diff_linesToCharsMunge_(t2, m1.lineArray, m1.lineHash, maxLines2))

\* diff_linesToChars_ with room for maxLines1 lines of text1 and maxLines2
\* lines of both texts.
linesToChars(t1, t2, maxLines1, maxLines2) ==
    linesToCharsFirst(diff_linesToCharsMunge_(t1, << <<>> >>, <<>>, maxLines1),
                      t2, maxLines2)

\* Returns [error, chars1, chars2, lineArray]; error is "" when the call
\* returns.  "Allocate 2/3rds of the space for text1, the rest for text2."
diff_linesToChars_(t1, t2) == linesToChars(t1, t2, 40000, 65535)

RECURSIVE charsToLinesJoin(_, _, _)
charsToLinesJoin(chars, lineArray, j) ==
    IF j > Len(chars) THEN <<>>
    ELSE lineArray[chars[j] + 1] \o charsToLinesJoin(chars, lineArray, j + 1)

diff_charsToLines_(ds, lineArray) ==
    [i \in 1..Len(ds) |-> <<ds[i][1], charsToLinesJoin(ds[i][2], lineArray, 1)>>]

----------------------------------------------------------------------------
(* diff_main, diff_compute_, diff_lineMode_, diff_bisect_,                 *)
(* diff_bisectSplit_                                                       *)

RECURSIVE diff_main(_, _, _, _, _)
RECURSIVE diff_compute_(_, _, _, _, _)
RECURSIVE diff_lineMode_(_, _, _, _)
RECURSIVE diff_bisect_(_, _, _, _)
RECURSIVE diff_bisectSplit_(_, _, _, _, _, _)

\* Number.MAX_VALUE: a deadline no reading of the clock exceeds.
MAX_VALUE == 1000000000

\* The while loops that follow a diagonal, as the x reached: the loop leaves
\* after the least number n of steps at which its condition fails.
bisectSnakeFront(t1, t2, x1, y1) ==
    LET goes(n) == /\ x1 + n < Len(t1)
                   /\ y1 + n < Len(t2)
                   /\ charAt(t1, x1 + n) = charAt(t2, y1 + n)
        most == math_max(0, Len(t1) - x1)
    IN  x1 + (CHOOSE n \in 0..most :
                  ~goes(n) /\ \A j \in 0..(n - 1) : goes(j))

bisectSnakeReverse(t1, t2, x2, y2) ==
    LET goes(n) == /\ x2 + n < Len(t1)
                   /\ y2 + n < Len(t2)
                   /\ charAt(t1, Len(t1) - (x2 + n) - 1)
                        = charAt(t2, Len(t2) - (y2 + n) - 1)
        most == math_max(0, Len(t1) - x2)
    IN  x2 + (CHOOSE n \in 0..most :
                  ~goes(n) /\ \A j \in 0..(n - 1) : goes(j))

\* The state of the d loop of diff_bisect_ before its first iteration.  v1 and
\* v2 are maps from the assigned indices: the source also assigns
\* v1[v_offset + 1] when that index equals v_length.
bisectStart(t1, t2) ==
    LET max_d == (Len(t1) + Len(t2) + 1) \div 2
        v_length == 2 * max_d
        v == ArrayPut([x \in 0..(v_length - 1) |-> -1], max_d + 1, 0)
    IN  [d |-> 0, v1 |-> v, v2 |-> v,
         k1start |-> 0, k1end |-> 0, k2start |-> 0, k2end |-> 0]

\* "Walk the front path one step": the k1 loop from k1 on.  Returns
\* [hit |-> TRUE, x, y] on an overlap, else [hit |-> FALSE, st].
RECURSIVE bisectFront(_, _, _, _)
bisectFront(t1, t2, st, k1) ==
    IF ~(k1 <= st.d - st.k1end) THEN [hit |-> FALSE, st |-> st]
    ELSE LET max_d == (Len(t1) + Len(t2) + 1) \div 2
             v_offset == max_d
             v_length == 2 * max_d
             delta_ == Len(t1) - Len(t2)
             front == delta_ % 2 # 0
             k1_offset == v_offset + k1
             x0 == IF \/ k1 = -st.d
                      \/ (k1 # st.d
                          /\ st.v1[k1_offset - 1] < st.v1[k1_offset + 1])
                   THEN st.v1[k1_offset + 1]
                   ELSE st.v1[k1_offset - 1] + 1
             x1 == bisectSnakeFront(t1, t2, x0, x0 - k1)
             y1 == x1 - k1
             stored == [st EXCEPT !.v1 = ArrayPut(@, k1_offset, x1)]
             k2_offset == v_offset + delta_ - k1
         IN  IF x1 > Len(t1)
             THEN bisectFront(t1, t2, [stored EXCEPT !.k1end = @ + 2], k1 + 2)
             ELSE IF y1 > Len(t2)
             THEN bisectFront(t1, t2, [stored EXCEPT !.k1start = @ + 2], k1 + 2)
             ELSE IF /\ front
                     /\ k2_offset >= 0
                     /\ k2_offset < v_length
                     /\ st.v2[k2_offset] # -1
                     /\ x1 >= Len(t1) - st.v2[k2_offset]
             THEN [hit |-> TRUE, x |-> x1, y |-> y1]
             ELSE bisectFront(t1, t2, stored, k1 + 2)

\* "Walk the reverse path one step": the k2 loop from k2 on.
RECURSIVE bisectReverse(_, _, _, _)
bisectReverse(t1, t2, st, k2) ==
    IF ~(k2 <= st.d - st.k2end) THEN [hit |-> FALSE, st |-> st]
    ELSE LET max_d == (Len(t1) + Len(t2) + 1) \div 2
             v_offset == max_d
             v_length == 2 * max_d
             delta_ == Len(t1) - Len(t2)
             front == delta_ % 2 # 0
             k2_offset == v_offset + k2
             x0 == IF \/ k2 = -st.d
                      \/ (k2 # st.d
                          /\ st.v2[k2_offset - 1] < st.v2[k2_offset + 1])
                   THEN st.v2[k2_offset + 1]
                   ELSE st.v2[k2_offset - 1] + 1
             x2 == bisectSnakeReverse(t1, t2, x0, x0 - k2)
             y2 == x2 - k2
             stored == [st EXCEPT !.v2 = ArrayPut(@, k2_offset, x2)]
             k1_offset == v_offset + delta_ - k2
         IN  IF x2 > Len(t1)
             THEN bisectReverse(t1, t2, [stored EXCEPT !.k2end = @ + 2], k2 + 2)
             ELSE IF y2 > Len(t2)
             THEN bisectReverse(t1, t2, [stored EXCEPT !.k2start = @ + 2], k2 + 2)
             ELSE IF /\ ~front
                     /\ k1_offset >= 0
                     /\ k1_offset < v_length
                     /\ st.v1[k1_offset] # -1
                     /\ st.v1[k1_offset] >= Len(t1) - x2
             THEN [hit |-> TRUE, x |-> st.v1[k1_offset],
                   y |-> v_offset + st.v1[k1_offset] - k1_offset]
             ELSE bisectReverse(t1, t2, stored, k2 + 2)

\* A give-up result with the insertion before the deletion.
bisectGiveUp_swapped(t1, t2) == << <<DIFF_INSERT, t2>>, <<DIFF_DELETE, t1>> >>

\* "Diff took too long and hit the deadline or number of diffs equals number
\* of characters, no commonality at all": the return after the d loop.
bisectGiveUp(t1, t2) == << <<DIFF_DELETE, t1>>, <<DIFF_INSERT, t2>> >>

RECURSIVE bisectLoop(_, _, _, _, _)

\* The rest of an iteration of the d loop after its k2 loop, whose outcome
\* is r.
bisectAfterReverse(t1, t2, deadline, r, clock) ==
    IF r.hit
    THEN diff_bisectSplit_(t1, t2, r.x, r.y, deadline, clock + 1)
    ELSE bisectLoop(t1, t2, deadline, [r.st EXCEPT !.d = @ + 1], clock + 1)

\* The rest of an iteration of the d loop after its k1 loop, whose outcome
\* is f.
bisectAfterFront(t1, t2, deadline, d, f, clock) ==
    IF f.hit
    THEN diff_bisectSplit_(t1, t2, f.x, f.y, deadline, clock + 1)
    ELSE bisectAfterReverse(t1, t2, deadline,
             bisectReverse(t1, t2, f.st, -d + f.st.k2start), clock)

\* The d loop of diff_bisect_ from st.d on; the clock is read at the top of
\* every iteration.  The field expired tells whether this call left its loop
\* at the deadline check, the field split where it called diff_bisectSplit_
\* (<<>> when it did not).
bisectLoop(t1, t2, deadline, st, clock) ==
    IF ~(st.d < (Len(t1) + Len(t2) + 1) \div 2)
    THEN [diffs |-> bisectGiveUp(t1, t2), now |-> clock, expired |-> FALSE,
          split |-> <<>>]
    ELSE IF clock > deadline
    THEN [diffs |-> bisectGiveUp(t1, t2), now |-> clock + 1,
          expired |-> TRUE, split |-> <<>>]
    ELSE bisectAfterFront(t1, t2, deadline, st.d,
             bisectFront(t1, t2, st, -st.d + st.k1start), clock)

\* A diff_bisect_ that gives up without searching for the middle snake.
bisect_noSearch(t1, t2, deadline, clock) ==
    [diffs |-> bisectGiveUp(t1, t2), now |-> clock, expired |-> FALSE,
     split |-> <<>>]

diff_bisect_(t1, t2, deadline, clock) ==
    bisectLoop(t1, t2, deadline, bisectStart(t1, t2), clock)

\* "return diffs.concat(diffsb)"; the field split keeps the arguments x and
\* y of this diff_bisectSplit_.
bisectSplitConcat(diffsA, diffsB, x, y) ==
    [diffs |-> diffsA.diffs \o diffsB.diffs, now |-> diffsB.now,
     expired |-> FALSE, split |-> <<x, y>>]

\* The second diff_main of diff_bisectSplit_, after the first returned
\* diffsA.
bisectSplitSecond(t1, t2, x, y, deadline, diffsA) ==
    bisectSplitConcat(diffsA,
        diff_main(substringFrom(t1, x), substringFrom(t2, y),
                  <<FALSE>>, <<deadline>>, diffsA.now),
        x, y)

diff_bisectSplit_(t1, t2, x, y, deadline, clock) ==
    bisectSplitSecond(t1, t2, x, y, deadline,
        diff_main(substring(t1, 0, x), substring(t2, 0, y),
                  <<FALSE>>, <<deadline>>, clock))

RECURSIVE lineModeRediff(_, _)

\* "Delete the offending records and add the merged ones": the run of
\* deletions and insertions before st.pointer is replaced by subDiff, their
\* character diff.
lineModeReplace(st, subDiff, deadline) ==
    lineModeRediff(
        [st EXCEPT
           !.diffs = splice(@, st.pointer - st.count_delete - st.count_insert,
                        st.count_delete + st.count_insert, subDiff.diffs),
           !.pointer = st.pointer - st.count_delete - st.count_insert
                          + Len(subDiff.diffs) + 1,
           !.count_insert = 0, !.count_delete = 0,
           !.text_delete = <<>>, !.text_insert = <<>>,
           !.now = subDiff.now], deadline)

\* "Re-diff any replacement blocks, this time character-by-character": the
\* while loop of diff_lineMode_; st carries the script, the pointer, the run
\* and the clock.
lineModeRediff(st, deadline) ==
    IF ~(st.pointer < Len(st.diffs)) THEN st
    ELSE IF st.diffs[st.pointer + 1][1] = DIFF_INSERT
    THEN lineModeRediff(
             [st EXCEPT !.count_insert = @ + 1,
                        !.text_insert = @ \o st.diffs[st.pointer + 1][2],
                        !.pointer = @ + 1], deadline)
    ELSE IF st.diffs[st.pointer + 1][1] = DIFF_DELETE
    THEN lineModeRediff(
             [st EXCEPT !.count_delete = @ + 1,
                        !.text_delete = @ \o st.diffs[st.pointer + 1][2],
                        !.pointer = @ + 1], deadline)
    ELSE IF st.count_delete >= 1 /\ st.count_insert >= 1
    THEN lineModeReplace(st,
             diff_main(st.text_delete, st.text_insert, <<FALSE>>,
                       <<deadline>>, st.now), deadline)
    ELSE lineModeRediff(
             [st EXCEPT !.pointer = @ + 1,
                        !.count_insert = 0, !.count_delete = 0,
                        !.text_delete = <<>>, !.text_insert = <<>>], deadline)

\* "diffs.pop()": the script without the dummy entry at its end.
lineModePop(done) ==
    [diffs |-> SubSeq(done.diffs, 1, Len(done.diffs) - 1), now |-> done.now]

\* diff_lineMode_ after the diff of the encoded lines returned lineDiff:
\* the lines are decoded, semantically cleaned up, and re-diffed after a
\* dummy entry is added at the end.
lineModeLines(a, lineDiff, deadline) ==
    lineModePop(lineModeRediff(
        [diffs |-> Append(diff_cleanupSemantic(
                              diff_charsToLines_(lineDiff.diffs, a.lineArray)).diffs,
                          <<DIFF_EQUAL, <<>>>>),
         pointer |-> 0, count_delete |-> 0, count_insert |-> 0,
         text_delete |-> <<>>, text_insert |-> <<>>,
         now |-> lineDiff.now], deadline))

\* diff_lineMode_ after diff_linesToChars_ returned a (no text of the
\* diff_main calls below has a line "hasOwnProperty", so it has returned).
lineModeChars(a, deadline, clock) ==
    lineModeLines(a,
        diff_main(a.chars1, a.chars2, <<FALSE>>, <<deadline>>, clock),
        deadline)

diff_lineMode_(t1, t2, deadline, clock) ==
    lineModeChars(diff_linesToChars_(t1, t2), deadline, clock)

\* "Merge the results": the two halves around the common middle.
computeHalfMerge(hm, diffs_a, diffs_b) ==
    [diffs |-> diffs_a.diffs \o << <<DIFF_EQUAL, hm[5]>> >> \o diffs_b.diffs,
     now |-> diffs_b.now]

\* The second diff_main of the half-match branch, after the first returned
\* diffs_a.
computeHalfSecond(hm, checklines, deadline, diffs_a) ==
    computeHalfMerge(hm, diffs_a,
        diff_main(hm[2], hm[4], <<checklines>>, <<deadline>>, diffs_a.now))

\* diff_compute_ from "Check to see if the problem can be split in two" on;
\* hm is the result of diff_halfMatch_.
computeHalf(t1, t2, hm, checklines, deadline, clock) ==
    IF hm # <<>>
    THEN computeHalfSecond(hm, checklines, deadline,
             diff_main(hm[1], hm[3], <<checklines>>, <<deadline>>, clock))
    ELSE IF checklines /\ Len(t1) > 100 /\ Len(t2) > 100
    THEN diff_lineMode_(t1, t2, deadline, clock)
    ELSE diff_bisect_(t1, t2, deadline, clock)

\* diff_compute_ after i = longtext.indexOf(shorttext).
computeFound(t1, t2, longtext, shorttext, i, checklines, deadline, clock) ==
    IF i # -1
    THEN [diffs |->
              << <<IF Len(t1) > Len(t2) THEN DIFF_DELETE ELSE DIFF_INSERT,
                   substring(longtext, 0, i)>>,
                 <<DIFF_EQUAL, shorttext>>,
                 <<IF Len(t1) > Len(t2) THEN DIFF_DELETE ELSE DIFF_INSERT,
                   substringFrom(longtext, i + Len(shorttext))>> >>,
          now |-> clock]
    ELSE IF Len(shorttext) = 1
    THEN [diffs |-> << <<DIFF_DELETE, t1>>, <<DIFF_INSERT, t2>> >>,
          now |-> clock]
    ELSE computeHalf(t1, t2, diff_halfMatch_(t1, t2), checklines, deadline,
                     clock)

\* diff_compute_ for two non-empty texts.
computeLong(t1, t2, longtext, shorttext, checklines, deadline, clock) ==
    computeFound(t1, t2, longtext, shorttext,
                 indexOf(longtext, shorttext, 0), checklines, deadline, clock)

diff_compute_(t1, t2, checklines, deadline, clock) ==
    IF t1 = <<>> THEN [diffs |-> << <<DIFF_INSERT, t2>> >>, now |-> clock]
    ELSE IF t2 = <<>> THEN [diffs |-> << <<DIFF_DELETE, t1>> >>, now |-> clock]
    ELSE computeLong(t1, t2,
                     IF Len(t1) > Len(t2) THEN t1 ELSE t2,
                     IF Len(t1) > Len(t2) THEN t2 ELSE t1,
                     checklines, deadline, clock)

\* An equality shortcut that returns the equality for empty texts too.
mainEqual_always(t1) == << <<DIFF_EQUAL, t1>> >>

\* "Check for equality (speedup)": the script of two equal texts.
diff_mainEqual(t1) == IF t1 # <<>> THEN << <<DIFF_EQUAL, t1>> >> ELSE <<>>

\* "Restore the prefix and suffix" and the merge cleanup that ends
\* diff_main; computed is the result of diff_compute_.
mainRestore(commonprefix, commonsuffix, computed) ==
    [diffs |-> diff_cleanupMerge(
                   (IF commonprefix # <<>>
                    THEN << <<DIFF_EQUAL, commonprefix>> >> ELSE <<>>)
                   \o computed.diffs
                   \o (IF commonsuffix # <<>>
                       THEN << <<DIFF_EQUAL, commonsuffix>> >> ELSE <<>>)),
     now |-> computed.now]

\* "Trim off common suffix (speedup)" and "Compute the diff on the middle
\* block"; t1 and t2 are the texts without the common prefix.
mainTrimSuffix(commonprefix, t1, t2, suffixlength, checklines, deadline, clock) ==
    mainRestore(commonprefix,
        substringFrom(t1, Len(t1) - suffixlength),
        diff_compute_(substring(t1, 0, Len(t1) - suffixlength),
                      substring(t2, 0, Len(t2) - suffixlength),
                      checklines, deadline, clock))

\* diff_main after the common prefix is trimmed off.
mainTrimmed(commonprefix, t1, t2, checklines, deadline, clock) ==
    mainTrimSuffix(commonprefix, t1, t2, diff_commonSuffix(t1, t2),
                   checklines, deadline, clock)

\* "Trim off common prefix (speedup)"
mainTrimPrefix(t1, t2, prefixlength, checklines, deadline, clock) ==
    mainTrimmed(substring(t1, 0, prefixlength),
                substringFrom(t1, prefixlength),
                substringFrom(t2, prefixlength),
                checklines, deadline, clock)

\* Returns [diffs, now].  opt_cl and opt_dl are <<>> when the argument is
\* undefined.  The null check of the source has no counterpart: a text is
\* always a string here.  The clock is read once when the deadline is
\* computed from Diff_Timeout.
diff_main(t1, t2, opt_cl, opt_dl, clock) ==
    LET deadline == IF opt_dl = <<>>
                    THEN IF Diff_Timeout <= 0 THEN MAX_VALUE
                         ELSE clock + Diff_Timeout * 1000
                    ELSE opt_dl[1]
        clock1 == IF opt_dl = <<>> /\ Diff_Timeout > 0 THEN clock + 1 ELSE clock
        checklines == IF opt_cl = <<>> THEN TRUE ELSE opt_cl[1]
    IN  IF t1 = t2
        THEN [diffs |-> diff_mainEqual(t1), now |-> clock1]
        ELSE mainTrimPrefix(t1, t2, diff_commonPrefix(t1, t2),
                            checklines, deadline, clock1)

----------------------------------------------------------------------------
(* diff_xIndex                                                             *)

\* The for loop of diff_levenshtein from segment x on (counted from 1).
RECURSIVE levenshteinLoop(_, _, _)
levenshteinLoop(ds, x, st) ==
    IF x > Len(ds) THEN st
    ELSE levenshteinLoop(ds, x + 1,
             IF ds[x][1] = DIFF_INSERT
             THEN [st EXCEPT !.insertions = @ + Len(ds[x][2])]
             ELSE IF ds[x][1] = DIFF_DELETE
             THEN [st EXCEPT !.deletions = @ + Len(ds[x][2])]
             ELSE [levenshtein |-> st.levenshtein
                                    + math_max(st.insertions, st.deletions),
                   insertions |-> 0, deletions |-> 0])

\* The variables of diff_levenshtein at the end of its loop.
levenshteinCounted(ds) ==
    levenshteinLoop(ds, 1,
        [levenshtein |-> 0, insertions |-> 0, deletions |-> 0])

\* "levenshtein += math.max(insertions, deletions)" after the loop.
levenshteinTotal(st) == st.levenshtein + math_max(st.insertions, st.deletions)

\* A diff_levenshtein that forgets the edits after the last equality.
levenshtein_noTail(ds) == levenshteinCounted(ds).levenshtein

diff_levenshtein(ds) == levenshteinTotal(levenshteinCounted(ds))

\* The for loop of diff_xIndex from x on; returns the variables at the break
\* or at the end of the loop.
RECURSIVE xIndexLoop(_, _, _)
xIndexLoop(ds, location, st) ==
    IF ~(st.x < Len(ds)) THEN st
    ELSE LET d == ds[st.x + 1]
             c1 == IF d[1] # DIFF_INSERT THEN st.chars1 + Len(d[2])
                   ELSE st.chars1
             c2 == IF d[1] # DIFF_DELETE THEN st.chars2 + Len(d[2])
                   ELSE st.chars2
         IN  IF c1 > location
             THEN [st EXCEPT !.chars1 = c1, !.chars2 = c2]
             ELSE xIndexLoop(ds, location,
                      [x |-> st.x + 1, chars1 |-> c1, chars2 |-> c2,
                       last_chars1 |-> c1, last_chars2 |-> c2])

\* A diff_xIndex result that never asks whether the location was deleted.
xIndexResult_deletionKept(ds, location, st) ==
    st.last_chars2 + (location - st.last_chars1)

\* "Was the location was deleted?" and "Add the remaining character length".
xIndexResult(ds, location, st) ==
    IF Len(ds) # st.x /\ ds[st.x + 1][1] = DIFF_DELETE
    THEN st.last_chars2
    ELSE st.last_chars2 + (location - st.last_chars1)

\* A diff_xIndex that counts the remaining character length backwards.
xIndex_backwards(ds, location) ==
    xIndexResult(ds, -location,
        xIndexLoop(ds, location,
            [x |-> 0, chars1 |-> 0, chars2 |-> 0,
             last_chars1 |-> 0, last_chars2 |-> 0]))

diff_xIndex(ds, location) ==
    xIndexResult(ds, location,
        xIndexLoop(ds, location,
            [x |-> 0, chars1 |-> 0, chars2 |-> 0,
             last_chars1 |-> 0, last_chars2 |-> 0]))

----------------------------------------------------------------------------
(* The global functions encodeURI, decodeURI and parseInt, and the String  *)
(* methods of diff_toDelta and diff_fromDelta.  A call that may throw      *)
(* returns [error |-> the error, value |-> the value when error is ""].    *)

\* uriReserved: ; / ? : @ & = + $ ,
UriReserved == {59, 47, 63, 58, 64, 38, 61, 43, 36, 44}

\* uriUnescaped: letters, digits and - _ . ! ~ * ' ( )
UriUnescaped ==
    (65..90) \cup (97..122) \cup (48..57)
        \cup {45, 95, 46, 33, 126, 42, 39, 40, 41}

LeadSurrogate(c) == c >= 55296 /\ c <= 56319
TrailSurrogate(c) == c >= 56320 /\ c <= 57343

\* The octets of the UTF-8 encoding of the code point v.
UTF8(v) ==
    IF v < 128 THEN <<v>>
    ELSE IF v < 2048 THEN <<192 + v \div 64, 128 + (v % 64)>>
    ELSE IF v < 65536
    THEN <<224 + v \div 4096, 128 + ((v \div 64) % 64), 128 + (v % 64)>>
    ELSE <<240 + v \div 262144, 128 + ((v \div 4096) % 64),
           128 + ((v \div 64) % 64), 128 + (v % 64)>>

\* A hexadecimal digit, in upper case, as a code unit.
HexDigit(n) == IF n < 10 THEN 48 + n ELSE 55 + n

\* "%XX" for every octet.
RECURSIVE PercentEscape(_)
PercentEscape(octets) ==
    IF octets = <<>> THEN <<>>
    ELSE <<37, HexDigit(octets[1] \div 16), HexDigit(octets[1] % 16)>>
         \o PercentEscape(Tail(octets))

\* The result r of a call that may throw, with the text head before its
\* value.
Prepend(head, r) ==
    IF r.error # "" THEN r ELSE [error |-> "", value |-> head \o r.value]

\* encodeURI(s) from the code unit at index k (from 1) on: the code units
\* of uriReserved, uriUnescaped and "#" stay, a surrogate without its
\* partner throws a URIError, everything else is escaped as UTF-8.
RECURSIVE encodeURIFrom(_, _)
encodeURIFrom(s, k) ==
    IF k > Len(s) THEN [error |-> "", value |-> <<>>]
    ELSE IF s[k] \in UriReserved \cup UriUnescaped \cup {35}
    THEN Prepend(<<s[k]>>, encodeURIFrom(s, k + 1))
    ELSE IF TrailSurrogate(s[k]) THEN [error |-> "URIError", value |-> <<>>]
    ELSE IF ~LeadSurrogate(s[k])
    THEN Prepend(PercentEscape(UTF8(s[k])), encodeURIFrom(s, k + 1))
    ELSE IF k + 1 > Len(s) \/ ~TrailSurrogate(s[k + 1])
    THEN [error |-> "URIError", value |-> <<>>]
    ELSE Prepend(PercentEscape(UTF8((s[k] - 55296) * 1024
                                    + (s[k + 1] - 56320) + 65536)),
                 encodeURIFrom(s, k + 2))

encodeURI(s) == encodeURIFrom(s, 1)

IsHexDigit(c) == c \in (48..57) \cup (65..70) \cup (97..102)

HexValue(c) ==
    IF c \in 48..57 THEN c - 48 ELSE IF c \in 65..70 THEN c - 55 ELSE c - 87

\* s has an escape "%XX" at index k.
IsEscapeAt(s, k) ==
    /\ k + 2 <= Len(s)
    /\ s[k] = 37
    /\ IsHexDigit(s[k + 1])
    /\ IsHexDigit(s[k + 2])

\* The octet of the escape at index k.
OctetAt(s, k) == HexValue(s[k + 1]) * 16 + HexValue(s[k + 2])

\* The number of octets of the UTF-8 sequence that the octet b begins: the
\* number of its leading 1 bits, 0 for an octet below 128.
LeadingOnes(b) ==
    IF b < 128 THEN 0
    ELSE IF b < 192 THEN 1
    ELSE IF b < 224 THEN 2
    ELSE IF b < 240 THEN 3
    ELSE IF b < 248 THEN 4
    ELSE 5

\* The code point of the n octets escaped at index k, or -1 when they are
\* not a valid UTF-8 encoding of a code point: a continuation octet is out
\* of 128..191, the encoding is overlong, or the code point is a surrogate
\* or above 1114111.
DecodedAt(s, k, n) ==
    LET octet(j) == OctetAt(s, k + 3 * j)
        continued == \A j \in 1..(n - 1) :
                         /\ IsEscapeAt(s, k + 3 * j)
                         /\ octet(j) >= 128
                         /\ octet(j) <= 191
        v == IF n = 2 THEN (octet(0) - 192) * 64 + (octet(1) - 128)
             ELSE IF n = 3
             THEN (octet(0) - 224) * 4096 + (octet(1) - 128) * 64
                  + (octet(2) - 128)
             ELSE (octet(0) - 240) * 262144 + (octet(1) - 128) * 4096
                  + (octet(2) - 128) * 64 + (octet(3) - 128)
        least == IF n = 2 THEN 128 ELSE IF n = 3 THEN 2048 ELSE 65536
    IN  IF ~continued THEN -1
        ELSE IF v < least \/ v > 1114111 \/ (v >= 55296 /\ v <= 57343)
        THEN -1
        ELSE v

\* The code units of the code point v.
CodeUnits(v) ==
    IF v < 65536 THEN <<v>>
    ELSE <<55296 + (v - 65536) \div 1024, 56320 + ((v - 65536) % 1024)>>

\* decodeURI(s) from index k on: an escape of a code unit of uriReserved or
\* of "#" stays as it is, a malformed escape throws a URIError.
RECURSIVE decodeURIFrom(_, _)
decodeURIFrom(s, k) ==
    IF k > Len(s) THEN [error |-> "", value |-> <<>>]
    ELSE IF s[k] # 37 THEN Prepend(<<s[k]>>, decodeURIFrom(s, k + 1))
    ELSE IF ~IsEscapeAt(s, k) THEN [error |-> "URIError", value |-> <<>>]
    ELSE IF LeadingOnes(OctetAt(s, k)) = 0
    THEN Prepend(IF OctetAt(s, k) \in UriReserved \cup {35}
                 THEN SubSeq(s, k, k + 2) ELSE <<OctetAt(s, k)>>,
                 decodeURIFrom(s, k + 3))
    ELSE IF \/ LeadingOnes(OctetAt(s, k)) = 1
            \/ LeadingOnes(OctetAt(s, k)) > 4
            \/ k + 3 * LeadingOnes(OctetAt(s, k)) - 1 > Len(s)
            \/ DecodedAt(s, k, LeadingOnes(OctetAt(s, k))) = -1
    THEN [error |-> "URIError", value |-> <<>>]
    ELSE Prepend(CodeUnits(DecodedAt(s, k, LeadingOnes(OctetAt(s, k)))),
                 decodeURIFrom(s, k + 3 * LeadingOnes(OctetAt(s, k))))

decodeURI(s) == decodeURIFrom(s, 1)

\* The code units of WhiteSpace and LineTerminator, which parseInt skips at
\* the start of its argument.
StrWhiteSpaceChar ==
    {9, 10, 11, 12, 13, 32, 160, 5760, 8232, 8233, 8239, 8287, 12288, 65279}
        \cup (8192..8202)

\* The number of the decimal digits z; 0 for no digit.
RECURSIVE DecimalValue(_)
DecimalValue(z) ==
    IF z = <<>> THEN 0
    ELSE 10 * DecimalValue(SubSeq(z, 1, Len(z) - 1)) + (z[Len(z)] - 48)

\* The longest prefix of s made of decimal digits.
DigitPrefix(s) ==
    SubSeq(s, 1, CHOOSE n \in 0..Len(s) :
                     /\ \A j \in 1..n : s[j] \in 48..57
                     /\ n < Len(s) => s[n + 1] \notin 48..57)

\* s without its leading white space.
TrimStart(s) ==
    SubSeq(s, 1 + (CHOOSE n \in 0..Len(s) :
                       /\ \A j \in 1..n : s[j] \in StrWhiteSpaceChar
                       /\ n < Len(s) => s[n + 1] \notin StrWhiteSpaceChar),
           Len(s))

\* parseInt of a text that begins with neither white space nor a sign.
parseDigits(s, sign) ==
    IF DigitPrefix(s) = <<>> THEN <<>>
    ELSE <<sign * DecimalValue(DigitPrefix(s))>>

\* parseInt of a text without leading white space.
parseSigned(s) ==
    IF s # <<>> /\ s[1] = 45 THEN parseDigits(Tail(s), -1)
    ELSE IF s # <<>> /\ s[1] = 43 THEN parseDigits(Tail(s), 1)
    ELSE parseDigits(s, 1)

\* parseInt(s, 10): <<>> for NaN, else <<n>>.  Leading white space and a
\* sign are accepted and whatever follows the digits is ignored.
parseInt(s) == parseSigned(TrimStart(s))

\* String(n) for a natural number n.
RECURSIVE numberToString(_)
numberToString(n) ==
    IF n < 10 THEN <<48 + n>> ELSE numberToString(n \div 10) \o <<48 + (n % 10)>>

\* tokens.join("\t")
RECURSIVE join(_)
join(tokens) ==
    IF tokens = <<>> THEN <<>>
    ELSE IF Len(tokens) = 1 THEN tokens[1]
    ELSE tokens[1] \o <<9>> \o join(Tail(tokens))

\* s.split(/\t/g): the texts between the tabs, one more than there are
\* tabs.
RECURSIVE split(_)
split(s) ==
    IF \A k \in 1..Len(s) : s[k] # 9 THEN <<s>>
    ELSE LET k == CHOOSE k \in 1..Len(s) :
                      s[k] = 9 /\ \A j \in 1..(k - 1) : s[j] # 9
         IN  <<SubSeq(s, 1, k - 1)>> \o split(SubSeq(s, k + 1, Len(s)))

\* s.replace(/%20/g, " ")
RECURSIVE replaceEscapedSpaces(_)
replaceEscapedSpaces(s) ==
    IF s = <<>> THEN <<>>
    ELSE IF Len(s) >= 3 /\ s[1] = 37 /\ s[2] = 50 /\ s[3] = 48
    THEN <<32>> \o replaceEscapedSpaces(SubSeq(s, 4, Len(s)))
    ELSE <<s[1]>> \o replaceEscapedSpaces(Tail(s))

----------------------------------------------------------------------------
(* diff_toDelta and diff_fromDelta                                         *)

\* The token of one Diff: [error, value].
toDeltaToken(d) ==
    IF d[1] = DIFF_INSERT THEN Prepend(<<43>>, encodeURI(d[2]))
    ELSE IF d[1] = DIFF_DELETE
    THEN [error |-> "", value |-> <<45>> \o numberToString(Len(d[2]))]
    ELSE [error |-> "", value |-> <<61>> \o numberToString(Len(d[2]))]

\* The for loop of diff_toDelta from the Diff at x (from 1) on: [error,
\* value], the value being the array text.
RECURSIVE toDeltaLoop(_, _, _)
toDeltaLoop(ds, x, text) ==
    IF x > Len(ds) THEN [error |-> "", value |-> text]
    ELSE IF toDeltaToken(ds[x]).error # "" THEN toDeltaToken(ds[x])
    ELSE toDeltaLoop(ds, x + 1, Append(text, toDeltaToken(ds[x]).value))

\* The return statement of diff_toDelta.
toDeltaJoin(r) ==
    IF r.error # "" THEN r
    ELSE [error |-> "", value |-> replaceEscapedSpaces(join(r.value))]

\* Returns [error, value]: the URIError of encodeURI, or the delta.
diff_toDelta(ds) == toDeltaJoin(toDeltaLoop(ds, 1, <<>>))

RECURSIVE fromDeltaLoop(_, _, _, _, _)

\* The case "+" of diff_fromDelta; decoded is the result of decodeURI.
fromDeltaInsert(t1, tokens, x, ds, pointer, decoded) ==
    IF decoded.error # ""
    THEN [error |-> "Illegal escape in diff_fromDelta", value |-> <<>>]
    ELSE fromDeltaLoop(t1, tokens, x + 1,
                       Append(ds, <<DIFF_INSERT, decoded.value>>), pointer)

\* The cases "-" and "=" of diff_fromDelta; n is the result of parseInt.
fromDeltaLength(t1, tokens, x, ds, pointer, n) ==
    IF n = <<>> \/ n[1] < 0
    THEN [error |-> "Invalid number in diff_fromDelta", value |-> <<>>]
    ELSE fromDeltaLoop(t1, tokens, x + 1,
             Append(ds, <<IF charAt(tokens[x], 0) = <<61>>
                          THEN DIFF_EQUAL ELSE DIFF_DELETE,
                          substring(t1, pointer, pointer + n[1])>>),
             pointer + n[1])

\* The for loop of diff_fromDelta from the token at x (from 1) on, and the
\* check of the pointer after it.
fromDeltaLoop(t1, tokens, x, ds, pointer) ==
    IF x > Len(tokens)
    THEN IF pointer # Len(t1)
         THEN [error |-> "Delta length does not equal source text length",
               value |-> <<>>]
         ELSE [error |-> "", value |-> ds]
    ELSE IF charAt(tokens[x], 0) = <<43>>
    THEN fromDeltaInsert(t1, tokens, x, ds, pointer,
                         decodeURI(substringFrom(tokens[x], 1)))
    ELSE IF charAt(tokens[x], 0) \in {<<45>>, <<61>>}
    THEN fromDeltaLength(t1, tokens, x, ds, pointer,
                         parseInt(substringFrom(tokens[x], 1)))
    ELSE IF tokens[x] # <<>>
    THEN [error |-> "Invalid diff operation in diff_fromDelta",
          value |-> <<>>]
    ELSE fromDeltaLoop(t1, tokens, x + 1, ds, pointer)

\* Returns [error, value]: the Error thrown, or the script.
diff_fromDelta(t1, deltaText) == fromDeltaLoop(t1, split(deltaText), 1, <<>>, 0)

----------------------------------------------------------------------------
(* match_main, match_bitap_, match_bitapScore_, match_alphabet_            *)
(*                                                                         *)
(* A score and Match_Threshold are fractions <<numerator, denominator>>    *)
(* with a positive denominator.  An int of the bit arrays is the set of    *)
(* the positions 0..31 of its bits that are 1.                             *)

\* The number of bits in an int.
Match_MaxBits == 32

Zero == <<0, 1>>
Half == <<1, 2>>
One == <<1, 1>>

\* p <= q, for two fractions.
LessEq(p, q) == p[1] * q[2] <= q[1] * p[2]

\* math.min of two fractions.
fraction_min(p, q) == IF LessEq(q, p) /\ ~LessEq(p, q) THEN q ELSE p

\* Math.abs
abs(n) == IF n < 0 THEN -n ELSE n

\* s.lastIndexOf(pat, from): the last index <= from at which pat occurs, or
\* -1.
lastIndexOf(s, pat, from) ==
    LET last == math_min(ClampIndex(from, Len(s)), Len(s) - Len(pat))
        occurs(i) == SubSeq(s, i + 1, i + Len(pat)) = pat
    IN  IF \E i \in 0..last : occurs(i)
        THEN CHOOSE i \in 0..last :
                 occurs(i) /\ \A j \in (i + 1)..last : ~occurs(j)
        ELSE -1

\* A score that counts neither the errors nor the distance.
bitapScore_free(e, x, pat, location) == Zero

\* The score of a match with e errors at location x: accuracy plus proximity.
match_bitapScore_(e, x, pat, location) ==
    IF Match_Distance = 0
    THEN IF abs(location - x) # 0 THEN One ELSE <<e, Len(pat)>>
    ELSE <<e * Match_Distance + abs(location - x) * Len(pat),
           Len(pat) * Match_Distance>>

\* A hash that holds no character of the pattern.
alphabet_empty(pat) == <<>>

\* The hash of character locations: for every code unit of the pattern the
\* bits Len(pat) - i - 1 of its (0-based) places i.
match_alphabet_(pat) ==
    [c \in {pat[i] : i \in 1..Len(pat)} |->
        {Len(pat) - i : i \in {k \in 1..Len(pat) : pat[k] = c}}]

\* "s[text.charAt(j - 1)]" under &: a character outside the hash, or one past
\* the end of the text, gives undefined, which & reads as 0.
charMatch(s, txt, j) ==
    IF j >= 1 /\ j <= Len(txt) /\ txt[j] \in DOMAIN s THEN s[txt[j]] ELSE {}

\* (b << 1) | 1
ShiftOr1(b) == ({k + 1 : k \in b} \cap (0..(Match_MaxBits - 1))) \cup {0}

\* Element j of a bit array; | reads a hole as 0.
rdAt(rd, j) == IF j \in DOMAIN rd THEN rd[j] ELSE {}

\* A row that allows for no error at any level.
bitapRow_exact(s, txt, d, last_rd, rd, j) ==
    ShiftOr1(rdAt(rd, j + 1)) \cap charMatch(s, txt, j)

\* "First pass: exact match" and "Subsequent passes: fuzzy match".
bitapRow(s, txt, d, last_rd, rd, j) ==
    IF d = 0
    THEN ShiftOr1(rdAt(rd, j + 1)) \cap charMatch(s, txt, j)
    ELSE (ShiftOr1(rdAt(rd, j + 1)) \cap charMatch(s, txt, j))
         \cup ShiftOr1(rdAt(last_rd, j + 1) \cup rdAt(last_rd, j))
         \cup rdAt(last_rd, j + 1)

\* The score threshold after the speedups: "Is there a nearby exact match?"
\* and "What about in the other direction?".
bitapOtherDirection(pat, location, threshold, best_loc) ==
    IF best_loc # -1
    THEN fraction_min(match_bitapScore_(0, best_loc, pat, location), threshold)
    ELSE threshold

bitapNearby(txt, pat, location, best_loc) ==
    IF best_loc # -1
    THEN bitapOtherDirection(pat, location,
             fraction_min(match_bitapScore_(0, best_loc, pat, location),
                          Match_Threshold),
             lastIndexOf(txt, pat, location + Len(pat)))
    ELSE Match_Threshold

\* "Run a binary search to determine how far from 'loc' we can stray at this
\* error level": bin_mid at the end of the while loop.
RECURSIVE bitapBinarySearch(_, _, _, _, _, _, _)
bitapBinarySearch(d, bin_min, bin_mid, bin_max, pat, location, threshold) ==
    IF ~(bin_min < bin_mid) THEN bin_mid
    ELSE IF LessEq(match_bitapScore_(d, location + bin_mid, pat, location),
                   threshold)
    THEN bitapBinarySearch(d, bin_mid, (bin_max - bin_mid) \div 2 + bin_mid,
                           bin_max, pat, location, threshold)
    ELSE bitapBinarySearch(d, bin_min, (bin_mid - bin_min) \div 2 + bin_min,
                           bin_mid, pat, location, threshold)

RECURSIVE bitapScan(_, _, _, _, _, _, _, _)

\* An iteration that keeps the candidate it has when the next one has the
\* same score.
bitapScanStep_firstKept(txt, pat, location, s, d, last_rd, j, st, v) ==
    IF v \cap {Len(pat) - 1} # {}
       /\ LessEq(match_bitapScore_(d, j - 1, pat, location),
                 st.score_threshold)
       /\ \/ st.best_loc = -1
          \/ ~LessEq(st.score_threshold,
                     match_bitapScore_(d, j - 1, pat, location))
    THEN IF j - 1 > location
         THEN bitapScan(txt, pat, location, s, d, last_rd, j - 1,
                  [rd |-> [st.rd EXCEPT ![j] = v],
                   score_threshold |->
                       match_bitapScore_(d, j - 1, pat, location),
                   best_loc |-> j - 1,
                   start |-> math_max(1, 2 * location - (j - 1))])
         ELSE [rd |-> [st.rd EXCEPT ![j] = v],
               score_threshold |-> match_bitapScore_(d, j - 1, pat, location),
               best_loc |-> j - 1,
               start |-> st.start]
    ELSE bitapScan(txt, pat, location, s, d, last_rd, j - 1,
             [st EXCEPT !.rd = [st.rd EXCEPT ![j] = v]])

\* The rest of an iteration of the j loop once rd[j] is v.
bitapScanStep(txt, pat, location, s, d, last_rd, j, st, v) ==
    IF v \cap {Len(pat) - 1} # {}
       /\ LessEq(match_bitapScore_(d, j - 1, pat, location),
                 st.score_threshold)
    THEN IF j - 1 > location
         THEN bitapScan(txt, pat, location, s, d, last_rd, j - 1,
                  [rd |-> [st.rd EXCEPT ![j] = v],
                   score_threshold |->
                       match_bitapScore_(d, j - 1, pat, location),
                   best_loc |-> j - 1,
                   start |-> math_max(1, 2 * location - (j - 1))])
         ELSE [rd |-> [st.rd EXCEPT ![j] = v],
               score_threshold |-> match_bitapScore_(d, j - 1, pat, location),
               best_loc |-> j - 1,
               start |-> st.start]
    ELSE bitapScan(txt, pat, location, s, d, last_rd, j - 1,
             [st EXCEPT !.rd = [st.rd EXCEPT ![j] = v]])

\* The j loop of match_bitap_ from j down to st.start; returns rd,
\* score_threshold and best_loc at its end or at its break.
bitapScan(txt, pat, location, s, d, last_rd, j, st) ==
    IF ~(j >= st.start) THEN st
    ELSE bitapScanStep(txt, pat, location, s, d, last_rd, j, st,
                       bitapRow(s, txt, d, last_rd, st.rd, j))

\* A bit array whose last element allows for one error more: (1 << (d + 1)) - 1.
bitapArray_oneMore(finish, d) ==
    [j \in 1..(finish + 1) |-> IF j = finish + 1 THEN 0..d ELSE {}]

\* The new bit array: Array(finish + 2) with rd[finish + 1] = (1 << d) - 1.
bitapArray(finish, d) ==
    [j \in 1..(finish + 1) |-> IF j = finish + 1 THEN 0..(d - 1) ELSE {}]

RECURSIVE bitapLoop(_, _, _, _, _, _, _, _, _)

\* "No hope for a (better) match at greater error levels", or the next
\* error level.
bitapAfterScan(txt, pat, location, s, d, bin_mid, st) ==
    IF ~LessEq(match_bitapScore_(d + 1, location, pat, location),
               st.score_threshold)
    THEN st.best_loc
    ELSE bitapLoop(txt, pat, location, s, d + 1, bin_mid, st.rd,
                   st.score_threshold, st.best_loc)

\* The scan of error level d between start and finish.
bitapPass(txt, pat, location, s, d, bin_mid, finish, last_rd, threshold, best_loc) ==
    bitapAfterScan(txt, pat, location, s, d, bin_mid,
        bitapScan(txt, pat, location, s, d, last_rd, finish,
            [rd |-> bitapArray(finish, d),
             score_threshold |-> threshold,
             best_loc |-> best_loc,
             start |-> math_max(1, location - bin_mid + 1)]))

\* The window of error level d.
bitapWindow(txt, pat, location, s, d, bin_mid, last_rd, threshold, best_loc) ==
    bitapPass(txt, pat, location, s, d, bin_mid,
              math_min(location + bin_mid, Len(txt)) + Len(pat),
              last_rd, threshold, best_loc)

\* The d loop of match_bitap_: "each iteration allows for one more error".
bitapLoop(txt, pat, location, s, d, bin_max, last_rd, threshold, best_loc) ==
    IF ~(d < Len(pat)) THEN best_loc
    ELSE bitapWindow(txt, pat, location, s, d,
             bitapBinarySearch(d, 0, bin_max, bin_max, pat, location,
                               threshold),
             last_rd, threshold, best_loc)

\* Returns [error, value]: the Error thrown, or the best match index or -1.
match_bitap_(txt, pat, location) ==
    IF Len(pat) > Match_MaxBits
    THEN [error |-> "Pattern too long for this browser.", value |-> <<>>]
    ELSE [error |-> "",
          value |-> bitapLoop(txt, pat, location, match_alphabet_(pat), 0,
                              Len(pat) + Len(txt), <<>>,
                              bitapNearby(txt, pat, location,
                                          indexOf(txt, pat, location)),
                              -1)]

\* match_main after "loc = math.max(0, math.min(loc, text.length))".
matchAt(txt, pat, location) ==
    IF txt = pat THEN [error |-> "", value |-> 0]
    ELSE IF Len(txt) = 0 THEN [error |-> "", value |-> -1]
    ELSE IF substring(txt, location, location + Len(pat)) = pat
    THEN [error |-> "", value |-> location]
    ELSE match_bitap_(txt, pat, location)

\* Returns [error, value]; the arguments are two strings and a number, so the
\* null check passes.
match_main(txt, pat, location) ==
    matchAt(txt, pat, math_max(0, math_min(location, Len(txt))))

----------------------------------------------------------------------------
(* The calls of diff_main and diff_bisect_                                 *)


\* The code units of the short texts.
Alphabet == {97, 98}

\* The longest short text.
MaxLen == 4

\* The latest explicit deadline; the clock starts at 1, so the deadline 0 has
\* already passed at the first reading.
MaxDeadline == 3

\* The length of the line shared by the long texts; diff_compute_ takes the
\* line mode only for texts longer than 100 code units.
LineLen == 100

Strings(S, n) == UNION {[1..k -> S] : k \in 0..n}

ShortTexts == Strings(Alphabet, MaxLen)

\* A line of pairwise distinct code units, ended by "\n".
LongLine == [i \in 1..LineLen |-> 200 + i] \o <<10>>

\* "a\n", "b\n", "a\nb\n"
Heads == {<<97, 10>>, <<98, 10>>, <<97, 10, 98, 10>>}

\* "", "ab", "ab\nb", "b\n"
Tails == {<<>>, <<97, 98>>, <<97, 98, 10, 98>>, <<98, 10>>}

\* Texts of several lines that share the long line.
LongTexts == {h \o LongLine \o t : h \in Heads, t \in Tails}

InitDiff ==
    /\ Diff_Timeout \in {0, 1}
    /\ Diff_EditCost = 4
    /\ Match_Threshold = Half
    /\ Match_Distance = 1000
    /\ match_text = <<>>
    /\ match_pattern = <<>>
    /\ pc = "ready"
    /\ \/ /\ text1 \in ShortTexts
          /\ text2 \in ShortTexts
          /\ opt_checklines \in {<<>>, <<FALSE>>, <<TRUE>>}
       \/ /\ text1 \in LongTexts
          /\ text2 \in LongTexts
          /\ opt_checklines \in {<<>>, <<TRUE>>}
    /\ opt_deadline \in {<<>>} \cup {<<d>> : d \in 0..MaxDeadline}
    /\ now = 1
    /\ diffs = <<>>
    /\ delta = <<>>
    /\ loc = 0
    /\ ret = <<>>
    /\ expired = FALSE

\* The caller receives the script r.diffs; the clock has advanced to r.now.
\* The calls of this specification leave the arguments alone.
Returned(method, r, gaveUp) ==
    /\ diffs' = r.diffs
    /\ now' = r.now
    /\ expired' = gaveUp
    /\ pc' = method
    /\ UNCHANGED <<Match_Threshold, Match_Distance, match_text, match_pattern>>
    /\ UNCHANGED Diff_EditCost
    /\ UNCHANGED <<Diff_Timeout, text1, text2, opt_checklines, opt_deadline,
                   delta, loc, ret>>

\* diffs = diff_main(text1, text2, opt_checklines, opt_deadline)
DiffMain ==
    /\ pc = "ready"
    /\ Returned("diff_main",
                diff_main(text1, text2, opt_checklines, opt_deadline, now),
                FALSE)

\* The return of diff_bisect_; ret holds the point at which it called
\* diff_bisectSplit_, or <<>>.
BisectReturned(r) ==
    /\ diffs' = r.diffs
    /\ now' = r.now
    /\ expired' = r.expired
    /\ ret' = r.split
    /\ pc' = "diff_bisect_"
    /\ UNCHANGED <<Match_Threshold, Match_Distance, match_text, match_pattern>>
    /\ UNCHANGED <<Diff_Timeout, Diff_EditCost, text1, text2, opt_checklines,
                   opt_deadline, delta, loc>>

\* Any two non-empty texts.
BisectCalled_untrimmed == text1 # <<>> /\ text2 # <<>>

\* The texts diff_compute_ hands to diff_bisect_: diff_main has trimmed the
\* common prefix and suffix off, and diff_compute_ has found both non-empty,
\* the shorter one longer than one code unit and not inside the longer one,
\* no half-match, and the line mode not to apply.
BisectCalled ==
    /\ text1 # <<>>
    /\ text2 # <<>>
    /\ diff_commonPrefix(text1, text2) = 0
    /\ diff_commonSuffix(text1, text2) = 0
    /\ math_min(Len(text1), Len(text2)) > 1
    /\ indexOf(text1, text2, 0) = -1
    /\ indexOf(text2, text1, 0) = -1
    /\ diff_halfMatch_(text1, text2) = <<>>
    /\ ~(Len(text1) > 100 /\ Len(text2) > 100)

\* diffs = diff_bisect_(text1, text2, deadline), as diff_compute_ calls it.
DiffBisect ==
    /\ pc = "ready"
    /\ opt_deadline # <<>>
    /\ BisectCalled
    /\ BisectReturned(diff_bisect_(text1, text2, opt_deadline[1], now))

\* ret = diff_levenshtein(diffs), of the script diff_main has returned.
Levenshtein ==
    /\ pc = "diff_main"
    /\ ret' = diff_levenshtein(diffs)
    /\ pc' = "diff_levenshtein"
    /\ UNCHANGED <<Match_Threshold, Match_Distance, match_text, match_pattern>>
    /\ UNCHANGED Diff_EditCost
    /\ UNCHANGED <<Diff_Timeout, text1, text2, opt_checklines, opt_deadline,
                   now, diffs, delta, loc, expired>>

NextDiff == DiffMain \/ DiffBisect \/ Levenshtein

SpecDiff == InitDiff /\ [][NextDiff]_vars

\* The script ds turns the text a into the text b.
Rebuilds(ds, a, b) == diff_text1(ds) = a /\ diff_text2(ds) = b

NoAdjacentSameOp(ds) == \A i \in 1..(Len(ds) - 1) : ds[i][1] # ds[i + 1][1]

NoEmptyText(ds) == \A i \in 1..Len(ds) : ds[i][2] # <<>>

\* The texts went through the line mode of diff_compute_.
LongCall == Len(text1) > LineLen /\ Len(text2) > LineLen

MainNoAdjacent == pc = "diff_main" => NoAdjacentSameOp(diffs)

\* diff_main has returned a script of at least four segments, none with the
\* operation of its neighbour.
MainNoAdjacentWitness ==
    /\ pc = "diff_main"
    /\ Len(diffs) >= 4
    /\ NoAdjacentSameOp(diffs)

\* C3: in every script diff_main returns, whatever the texts, the checklines
\* value (the line mode included) and the deadline, no segment has the empty
\* text.
MainNoEmpty == pc = "diff_main" => NoEmptyText(diffs)

\* The number of code units the script inserts or deletes.
RECURSIVE EditLength(_)
EditLength(ds) ==
    IF ds = <<>> THEN 0
    ELSE (IF ds[1][1] = DIFF_EQUAL THEN 0 ELSE Len(ds[1][2]))
         + EditLength(Tail(ds))

\* The length of a longest common subsequence of a and b.
RECURSIVE LCS(_, _)
LCS(a, b) ==
    IF a = <<>> \/ b = <<>> THEN 0
    ELSE IF Head(a) = Head(b) THEN 1 + LCS(Tail(a), Tail(b))
    ELSE math_max(LCS(Tail(a), b), LCS(a, Tail(b)))

\* diff_main was called with unlimited time and without the line mode.
Unlimited ==
    /\ Diff_Timeout <= 0
    /\ opt_checklines = <<FALSE>>
    /\ opt_deadline = <<>>

\* C5: with Diff_Timeout <= 0 and checklines = false, the script of
\* diff_main(a, b) is minimal: its inserted plus deleted code units number
\* |a| + |b| - 2 * LCS(a, b).
Minimal ==
    pc = "diff_main" /\ Unlimited
        => EditLength(diffs) = Len(text1) + Len(text2) - 2 * LCS(text1, text2)

\* An unlimited diff_main has returned a minimal script that the bisection
\* had to split: the texts share two code units but neither contains the
\* other.
MinimalWitness ==
    /\ pc = "diff_main"
    /\ Unlimited
    /\ LCS(text1, text2) >= 2
    /\ LCS(text1, text2) < math_min(Len(text1), Len(text2))
    /\ Len(diffs) >= 4
    /\ EditLength(diffs) = Len(text1) + Len(text2) - 2 * LCS(text1, text2)

\* C6: diff_main(a, a) returns the empty script when a is empty and exactly
\* [(EQUAL, a)] otherwise, for every checklines value and deadline.
EqualTexts ==
    pc = "diff_main" /\ text1 = text2
        => diffs = IF text1 = <<>> THEN <<>> ELSE << <<DIFF_EQUAL, text1>> >>

\* diff_main has returned the single equality for two equal texts, under a
\* deadline that had already passed.
EqualTextsWitness ==
    /\ pc = "diff_main"
    /\ text1 = text2
    /\ text1 # <<>>
    /\ opt_deadline = <<0>>
    /\ diffs = << <<DIFF_EQUAL, text1>> >>

\* With an explicit deadline diff_main reads the clock only at the deadline
\* check of diff_bisect_, so the last reading, now - 1, was such a check.
MainSawDeadlinePass ==
    /\ opt_deadline # <<>>
    /\ now > 1
    /\ now - 1 > opt_deadline[1]

\* C7: when the deadline has passed at the check of diff_bisect_, it returns
\* exactly [(DELETE, text1), (INSERT, text2)] and no error, and a diff_main
\* whose bisection met the passed deadline still returns a script that
\* rebuilds both texts.
DeadlinePassed ==
    /\ pc = "diff_bisect_" /\ expired
        => diffs = << <<DIFF_DELETE, text1>>, <<DIFF_INSERT, text2>> >>
    /\ pc = "diff_main" /\ MainSawDeadlinePass
        => /\ Rebuilds(diffs, text1, text2)
           /\ \A i \in 1..Len(diffs) :
                  diffs[i][1] \in {DIFF_DELETE, DIFF_INSERT, DIFF_EQUAL}

\* diff_bisect_ has given up at a deadline that passed after its first
\* check.
DeadlinePassedWitness ==
    /\ pc = "diff_bisect_"
    /\ expired
    /\ opt_deadline[1] >= 1
    /\ text1 # <<>>
    /\ text2 # <<>>
    /\ diffs = << <<DIFF_DELETE, text1>>, <<DIFF_INSERT, text2>> >>

\* The Levenshtein distance of a and b: the fewest insertions, deletions and
\* substitutions of one code unit that turn a into b.
RECURSIVE Distance(_, _)
Distance(a, b) ==
    IF a = <<>> THEN Len(b)
    ELSE IF b = <<>> THEN Len(a)
    ELSE IF Head(a) = Head(b) THEN Distance(Tail(a), Tail(b))
    ELSE 1 + math_min(Distance(Tail(a), Tail(b)),
                      math_min(Distance(Tail(a), b), Distance(a, Tail(b))))

BisectSplitsInside ==
    pc = "diff_bisect_" /\ ret # <<>>
    => /\ ret[1] \in 0..Len(text1)
       /\ ret[2] \in 0..Len(text2)
       /\ ret[1] + ret[2] > 0
       /\ ret[1] + ret[2] < Len(text1) + Len(text2)

\* diff_bisect_ has split at the border of the grid: one of the two pairs
\* it hands to diff_main has an empty text.
BisectSplitsInsideWitness ==
    /\ pc = "diff_bisect_"
    /\ ret # <<>>
    /\ \/ ret[1] = 0
       \/ ret[2] = 0
       \/ ret[1] = Len(text1)
       \/ ret[2] = Len(text2)

----------------------------------------------------------------------------
(* The calls of diff_cleanupMerge and diff_xIndex on arbitrary scripts     *)

\* The texts of the segments of a script: "", "a", "b", "ab".
SegmentTexts == {<<>>, <<97>>, <<98>>, <<97, 98>>}

\* The most segments of a script.
MaxSegments == 3

\* The largest location; the smallest is -1.
MaxLoc == 7

AllDiffs == {DIFF_DELETE, DIFF_INSERT, DIFF_EQUAL} \X SegmentTexts

\* Every script of at most MaxSegments segments: empty texts, adjacent
\* segments of one operation and equal insertions and deletions included.
Scripts == UNION {[1..k -> AllDiffs] : k \in 0..MaxSegments}

InitScript ==
    /\ Diff_Timeout = 1
    /\ Diff_EditCost = 4
    /\ Match_Threshold = Half
    /\ Match_Distance = 1000
    /\ match_text = <<>>
    /\ match_pattern = <<>>
    /\ pc = "ready"
    /\ diffs \in Scripts
    /\ text1 = diff_text1(diffs)
    /\ text2 = diff_text2(diffs)
    /\ opt_checklines = <<>>
    /\ opt_deadline = <<>>
    /\ now = 1
    /\ delta = <<>>
    /\ loc \in -1..MaxLoc
    /\ ret = <<>>
    /\ expired = FALSE

\* diff_cleanupMerge(diffs): the script is changed in place.
CleanupMerge ==
    /\ pc = "ready"
    /\ diffs' = diff_cleanupMerge(diffs)
    /\ pc' = "diff_cleanupMerge"
    /\ UNCHANGED <<Match_Threshold, Match_Distance, match_text, match_pattern>>
    /\ UNCHANGED Diff_EditCost
    /\ UNCHANGED <<Diff_Timeout, text1, text2, opt_checklines, opt_deadline,
                   now, delta, loc, ret, expired>>

\* ret = diff_xIndex(diffs, loc)
XIndex ==
    /\ pc = "ready"
    /\ ret' = diff_xIndex(diffs, loc)
    /\ pc' = "diff_xIndex"
    /\ UNCHANGED <<Match_Threshold, Match_Distance, match_text, match_pattern>>
    /\ UNCHANGED Diff_EditCost
    /\ UNCHANGED <<Diff_Timeout, text1, text2, opt_checklines, opt_deadline,
                   now, diffs, delta, loc, expired>>

NextScript == CleanupMerge \/ XIndex

SpecScript == InitScript /\ [][NextScript]_vars

\* C4: after diff_cleanupMerge has run on any script (scripts with adjacent
\* segments of one operation, with empty texts, or with an insertion and a
\* deletion of the same text in one run included), the script has no two
\* adjacent segments of the same operation and no segment with the empty
\* text.
MergeNormalizes ==
    pc = "diff_cleanupMerge" => NoAdjacentSameOp(diffs) /\ NoEmptyText(diffs)

\* C20: diff_cleanupMerge reaches a fixed point: for every script, applying
\* diff_cleanupMerge to the result of diff_cleanupMerge leaves it unchanged.
MergeIdempotent ==
    pc = "diff_cleanupMerge" => diff_cleanupMerge(diffs) = diffs

\* C27: diff_cleanupMerge preserves both texts: for every script (runs that
\* are reordered, factored or shifted over an equality included) diff_text1
\* and diff_text2 are the same before and after the call.
MergeKeepsTexts ==
    pc = "diff_cleanupMerge" => Rebuilds(diffs, text1, text2)

\* diff_cleanupMerge has merged a run into segments longer than any segment
\* of the script it was given, and the script still holds both kinds of
\* edit.
MergeKeepsTextsWitness ==
    /\ pc = "diff_cleanupMerge"
    /\ Rebuilds(diffs, text1, text2)
    /\ \E i \in 1..Len(diffs) :
           diffs[i][1] = DIFF_DELETE /\ Len(diffs[i][2]) > 2
    /\ \E i \in 1..Len(diffs) : diffs[i][1] = DIFF_INSERT

\* C10: diff_xIndex is monotonic non-decreasing in loc: for every script
\* and all locations loc <= loc2, diff_xIndex(diffs, loc) is at most
\* diff_xIndex(diffs, loc2).
XIndexMonotonic ==
    pc = "diff_xIndex"
        => \A loc2 \in -1..(MaxLoc + 1) :
               loc <= loc2 => ret <= diff_xIndex(diffs, loc2)

\* diff_xIndex has returned for a location inside a deletion that follows
\* an equality and an insertion, and a later location maps strictly
\* further.
XIndexMonotonicWitness ==
    /\ pc = "diff_xIndex"
    /\ Len(diffs) = 3
    /\ diffs[1][1] = DIFF_EQUAL
    /\ diffs[2][1] = DIFF_INSERT
    /\ diffs[3] = <<DIFF_DELETE, <<97, 98>>>>
    /\ loc = Len(diffs[1][2]) + 1
    /\ ret = Len(diffs[1][2]) + Len(diffs[2][2])
    /\ ret < diff_xIndex(diffs, loc + 2)

\* The length of text1 (non-INSERT segments) before segment i of the script.
RECURSIVE Before1(_, _)
Before1(ds, i) ==
    IF i <= 1 THEN 0
    ELSE Before1(ds, i - 1)
         + (IF ds[i - 1][1] # DIFF_INSERT THEN Len(ds[i - 1][2]) ELSE 0)

\* The length of text2 (non-DELETE segments) before segment i of the script.
RECURSIVE Before2(_, _)
Before2(ds, i) ==
    IF i <= 1 THEN 0
    ELSE Before2(ds, i - 1)
         + (IF ds[i - 1][1] # DIFF_DELETE THEN Len(ds[i - 1][2]) ELSE 0)

\* Location l of text1 falls inside segment i of the script.
Inside(ds, l, i) ==
    /\ ds[i][1] # DIFF_INSERT
    /\ Before1(ds, i) <= l
    /\ l < Before1(ds, i) + Len(ds[i][2])

\* "The big cat" out of "The cat".
TheBigCat ==
    << <<DIFF_EQUAL, <<84, 104, 101, 32>>>>,
       <<DIFF_INSERT, <<98, 105, 103, 32>>>>,
       <<DIFF_EQUAL, <<99, 97, 116>>>> >>

----------------------------------------------------------------------------
(* The calls of diff_commonPrefix, diff_commonSuffix, diff_commonOverlap_  *)
(* and diff_halfMatch_                                                     *)

\* The longest text of a pair.
MaxPair == 5

InitPair ==
    /\ Diff_Timeout = 1
    /\ Diff_EditCost = 4
    /\ Match_Threshold = Half
    /\ Match_Distance = 1000
    /\ match_text = <<>>
    /\ match_pattern = <<>>
    /\ pc = "ready"
    /\ text1 \in Strings(Alphabet, MaxPair)
    /\ text2 \in Strings(Alphabet, MaxPair)
    /\ opt_checklines = <<>>
    /\ opt_deadline = <<>>
    /\ now = 1
    /\ diffs = <<>>
    /\ delta = <<>>
    /\ loc = 0
    /\ ret = <<>>
    /\ expired = FALSE

\* The return of a method that changes nothing of its object or arguments.
ReturnedValue(method, value) ==
    /\ ret' = value
    /\ pc' = method
    /\ UNCHANGED <<Match_Threshold, Match_Distance, match_text, match_pattern>>
    /\ UNCHANGED Diff_EditCost
    /\ UNCHANGED <<Diff_Timeout, text1, text2, opt_checklines, opt_deadline,
                   now, diffs, delta, loc, expired>>

\* ret = diff_commonPrefix(text1, text2)
CommonPrefix ==
    /\ pc = "ready"
    /\ ReturnedValue("diff_commonPrefix", diff_commonPrefix(text1, text2))

\* ret = diff_commonSuffix(text1, text2)
CommonSuffix ==
    /\ pc = "ready"
    /\ ReturnedValue("diff_commonSuffix", diff_commonSuffix(text1, text2))

\* ret = diff_commonOverlap_(text1, text2)
CommonOverlap ==
    /\ pc = "ready"
    /\ ReturnedValue("diff_commonOverlap_", diff_commonOverlap_(text1, text2))

NextPair == CommonPrefix \/ CommonSuffix \/ CommonOverlap

SpecPair == InitPair /\ [][NextPair]_vars

\* The first k code units of a and of b are equal.
SamePrefix(a, b, k) == SubSeq(a, 1, k) = SubSeq(b, 1, k)

\* The last k code units of a and of b are equal.
SameSuffix(a, b, k) ==
    SubSeq(a, Len(a) - k + 1, Len(a)) = SubSeq(b, Len(b) - k + 1, Len(b))

\* The last k code units of a are the first k of b.
Overlaps(a, b, k) == SubSeq(a, Len(a) - k + 1, Len(a)) = SubSeq(b, 1, k)

\* The lengths up to which two texts can agree.
Shorter(a, b) == 0..math_min(Len(a), Len(b))

\* C16: diff_commonPrefix(a, b) is the largest k such that the first k code
\* units of a and b are equal, and diff_commonSuffix(a, b) the largest k such
\* that the last k code units are equal.
CommonEnds ==
    /\ pc = "diff_commonPrefix"
           => /\ ret \in Shorter(text1, text2)
              /\ SamePrefix(text1, text2, ret)
              /\ \A k \in Shorter(text1, text2) :
                     SamePrefix(text1, text2, k) => k <= ret
    /\ pc = "diff_commonSuffix"
           => /\ ret \in Shorter(text1, text2)
              /\ SameSuffix(text1, text2, ret)
              /\ \A k \in Shorter(text1, text2) :
                     SameSuffix(text1, text2, k) => k <= ret

\* The binary search of diff_commonPrefix or of diff_commonSuffix has ended
\* strictly between one code unit and the shorter length.
CommonEndsWitness ==
    /\ pc \in {"diff_commonPrefix", "diff_commonSuffix"}
    /\ Len(text1) = 5
    /\ Len(text2) = 4
    /\ ret = 3

\* C19: diff_commonOverlap_(a, b) is the length of the longest suffix of a
\* that is a prefix of b, and 0 when either is empty.
LongestOverlap ==
    pc = "diff_commonOverlap_"
        => /\ ret \in Shorter(text1, text2)
           /\ Overlaps(text1, text2, ret)
           /\ \A k \in Shorter(text1, text2) :
                  Overlaps(text1, text2, k) => k <= ret
           /\ text1 = <<>> \/ text2 = <<>> => ret = 0

\* diff_commonOverlap_ has found an overlap of several code units between
\* two different texts after a shorter one.
LongestOverlapWitness ==
    /\ pc = "diff_commonOverlap_"
    /\ ret = 3
    /\ Overlaps(text1, text2, 1)
    /\ Len(text1) > ret
    /\ Len(text2) > ret

\* The longest text handed to diff_halfMatch_.
MaxHalf == 7

\* The texts of MaxHalf + 1 code units that begin with "a" (the other half
\* are these with "a" and "b" exchanged), and the shorter texts of at least
\* half that length.
Longest == {t \in [1..(MaxHalf + 1) -> Alphabet] : t[1] = 97}
Halves ==
    {t \in Strings(Alphabet, MaxHalf) : 2 * Len(t) >= MaxHalf + 1}

InitHalf ==
    /\ Diff_EditCost = 4
    /\ Match_Threshold = Half
    /\ Match_Distance = 1000
    /\ match_text = <<>>
    /\ match_pattern = <<>>
    /\ pc = "ready"
    /\ \/ /\ Diff_Timeout = 1
          /\ text1 \in Strings(Alphabet, MaxHalf)
          /\ text2 \in Strings(Alphabet, MaxHalf)
       \/ /\ Diff_Timeout = 1
          /\ text1 \in Longest
          /\ text2 \in Halves
       \/ /\ Diff_Timeout = 0
          /\ text1 \in Strings(Alphabet, MaxPair)
          /\ text2 \in Strings(Alphabet, MaxPair)
    /\ opt_checklines = <<>>
    /\ opt_deadline = <<>>
    /\ now = 1
    /\ diffs = <<>>
    /\ delta = <<>>
    /\ loc = 0
    /\ ret = <<>>
    /\ expired = FALSE

\* ret = diff_halfMatch_(text1, text2): <<>> for null.
HalfMatch ==
    /\ pc = "ready"
    /\ ReturnedValue("diff_halfMatch_", diff_halfMatch_(text1, text2))

SpecHalf == InitHalf /\ [][HalfMatch]_vars

\* C17: a tuple [t1a, t1b, t2a, t2b, mid] returned by diff_halfMatch_ has
\* t1a + mid + t1b = text1, t2a + mid + t2b = text2 and
\* 2 * |mid| >= max(|text1|, |text2|).
HalfMatchSplits ==
    pc = "diff_halfMatch_" /\ ret # <<>>
        => /\ Len(ret) = 5
           /\ ret[1] \o ret[5] \o ret[2] = text1
           /\ ret[3] \o ret[5] \o ret[4] = text2
           /\ 2 * Len(ret[5]) >= math_max(Len(text1), Len(text2))

\* diff_halfMatch_ has returned a half-match for a text1 shorter than text2,
\* with text before and after the common middle in text2.
HalfMatchSplitsWitness ==
    /\ pc = "diff_halfMatch_"
    /\ ret # <<>>
    /\ Len(text1) < Len(text2)
    /\ ret[3] # <<>>
    /\ ret[4] # <<>>
    /\ ret[1] # ret[3]

\* a and b have a common substring, not empty, of at least half the length
\* of the longer.
SharesHalf(a, b) ==
    LET k == math_max(1, (math_max(Len(a), Len(b)) + 1) \div 2)
    IN  \E i \in 0..(Len(a) - k) : \E j \in 0..(Len(b) - k) :
            SubSeq(a, i + 1, i + k) = SubSeq(b, j + 1, j + k)

\* C18 as stated: with Diff_Timeout > 0, diff_halfMatch_ returns a half-match
\* for every pair of texts that share a common substring of at least half the
\* length of the longer text.
HalfMatchFound ==
    /\ pc = "diff_halfMatch_"
    /\ Diff_Timeout > 0
    /\ SharesHalf(text1, text2)
    => ret # <<>>

\* C18: with Diff_Timeout > 0, diff_halfMatch_ returns a half-match for every
\* pair of texts whose longer text has at least 4 code units and that share
\* a common substring of at least half the length of the longer text.
HalfMatchFoundLong ==
    /\ pc = "diff_halfMatch_"
    /\ Diff_Timeout > 0
    /\ math_max(Len(text1), Len(text2)) >= 4
    /\ SharesHalf(text1, text2)
    => ret # <<>>

\* diff_halfMatch_ has found a common half that lies strictly inside a text1
\* of MaxHalf + 1 code units and is neither a prefix nor a suffix of text2.
HalfMatchFoundLongWitness ==
    /\ pc = "diff_halfMatch_"
    /\ Diff_Timeout > 0
    /\ Len(text1) = MaxHalf + 1
    /\ SharesHalf(text1, text2)
    /\ ret # <<>>
    /\ ret[1] # <<>>
    /\ ret[2] # <<>>
    /\ ret[3] # <<>>
    /\ ret[4] # <<>>

----------------------------------------------------------------------------
(* The calls of match_main                                                 *)

\* The longest text that is searched, and the longest pattern.
MaxText == 5
MaxPattern == 3

\* The values of Match_Distance: the exact location only, a short distance,
\* and the default.
Distances == {0, 2, 1000}

\* "abcdefghijk", "efxhi" and "fgh"
Abcdefghijk == <<97, 98, 99, 100, 101, 102, 103, 104, 105, 106, 107>>
Efxhi == <<101, 102, 120, 104, 105>>
Fgh == <<102, 103, 104>>

InitMatch ==
    /\ Diff_Timeout = 1
    /\ Diff_EditCost = 4
    /\ \/ /\ Match_Threshold \in {Zero, Half, One}
          /\ Match_Distance \in Distances
          /\ match_text \in Strings(Alphabet, MaxText)
          /\ match_pattern \in Strings(Alphabet, MaxPattern)
          /\ loc \in -1..(MaxText + 1)
       \/ /\ Match_Threshold = Half
          /\ Match_Distance = 1000
          /\ match_text = Abcdefghijk
          /\ match_pattern \in {Efxhi, Fgh}
          /\ loc \in {0, 5}
    /\ pc = "ready"
    /\ text1 = <<>>
    /\ text2 = <<>>
    /\ opt_checklines = <<>>
    /\ opt_deadline = <<>>
    /\ now = 1
    /\ diffs = <<>>
    /\ delta = <<>>
    /\ ret = <<>>
    /\ expired = FALSE

\* ret = match_main(match_text, match_pattern, loc)
MatchMain ==
    /\ pc = "ready"
    /\ ret' = match_main(match_text, match_pattern, loc)
    /\ pc' = "match_main"
    /\ UNCHANGED <<Match_Threshold, Match_Distance, match_text, match_pattern>>
    /\ UNCHANGED Diff_EditCost
    /\ UNCHANGED <<Diff_Timeout, text1, text2, opt_checklines, opt_deadline,
                   now, diffs, delta, loc, expired>>

SpecMatch == InitMatch /\ [][MatchMain]_vars

\* The pattern occurs in the text at index i.
OccursAt(txt, pat, i) ==
    i >= 0 /\ i + Len(pat) <= Len(txt) /\ SubSeq(txt, i + 1, i + Len(pat)) = pat

\* The location match_main searches around.
SearchedAround == math_max(0, math_min(loc, Len(match_text)))

\* match_main went on to match_bitap_.
BitapCalled ==
    /\ match_text # match_pattern
    /\ match_text # <<>>
    /\ ~OccursAt(match_text, match_pattern, SearchedAround)

\* C13 as stated: with Match_Threshold = 1.0 match_main returns an index >= 0
\* for every text, every pattern that occurs in it and every loc.
MatchLocatable ==
    /\ pc = "match_main"
    /\ Match_Threshold = One
    /\ \E i \in 0..Len(match_text) : OccursAt(match_text, match_pattern, i)
    => ret.error = "" /\ ret.value >= 0

\* C13: with Match_Threshold = 1.0 match_main returns an index >= 0 for every
\* text, every loc and every pattern that occurs in the text at most
\* Match_Distance code units from loc (anywhere, when Match_Distance is 0).
MatchLocatableNear ==
    /\ pc = "match_main"
    /\ Match_Threshold = One
    /\ \/ /\ Match_Distance = 0
          /\ \E i \in 0..Len(match_text) :
                 OccursAt(match_text, match_pattern, i)
       \/ \E i \in 0..Len(match_text) :
              /\ OccursAt(match_text, match_pattern, i)
              /\ abs(i - SearchedAround) <= Match_Distance
    => ret.error = "" /\ ret.value >= 0

\* match_bitap_ has located a pattern that occurs only at Match_Distance
\* from loc, at that place.
MatchLocatableNearWitness ==
    /\ pc = "match_main"
    /\ Match_Threshold = One
    /\ Match_Distance = 2
    /\ BitapCalled
    /\ match_pattern # <<>>
    /\ OccursAt(match_text, match_pattern, SearchedAround + 2)
    /\ \A i \in 0..Len(match_text) :
           OccursAt(match_text, match_pattern, i) => i = SearchedAround + 2
    /\ ret = [error |-> "", value |-> SearchedAround + 2]

\* C14: with Match_Threshold = 0.0 only exact matches are returned: when
\* match_main returns r >= 0, the pattern is text.substring(r, r + |pattern|).
MatchExact ==
    /\ pc = "match_main"
    /\ Match_Threshold = Zero
    /\ ret.value >= 0
    => substring(match_text, ret.value, ret.value + Len(match_pattern))
           = match_pattern

\* With Match_Threshold = 0.0 match_main has returned the place of a pattern
\* inside a longer text, and match_bitap_ has refused a text where the
\* pattern occurs away from loc.
MatchExactWitness ==
    /\ pc = "match_main"
    /\ Match_Threshold = Zero
    /\ match_pattern # <<>>
    /\ \/ /\ ret.value >= 1
          /\ OccursAt(match_text, match_pattern, ret.value)
          /\ Len(match_text) > Len(match_pattern)
       \/ /\ BitapCalled
          /\ \E i \in 0..Len(match_text) :
                 OccursAt(match_text, match_pattern, i)
          /\ ret.value = -1

\* The call of the example: match_main("abcdefghijk", "efxhi", 0) with the
\* default Match_Threshold 0.5 and Match_Distance 1000 has returned.
ExampleReturned ==
    /\ pc = "match_main"
    /\ Match_Threshold = Half
    /\ Match_Distance = 1000
    /\ match_text = Abcdefghijk
    /\ match_pattern = Efxhi
    /\ loc = 0

\* C15 as stated: with the default tuning match_main("abcdefghijk", "efxhi",
\* 0) returns 3.
MatchExampleThree == ExampleReturned => ret = [error |-> "", value |-> 3]

\* C15: with the default tuning match_main("abcdefghijk", "efxhi", 0)
\* returns 4, the index of "efghi".
MatchExampleFour == ExampleReturned => ret = [error |-> "", value |-> 4]

\* The call of the example has returned the index of "e".
MatchExampleFourWitness ==
    /\ ExampleReturned
    /\ ret.error = ""
    /\ charAt(match_text, ret.value) = <<101>>

\* C30: whenever match_main returns normally the result is -1 or an index r
\* with 0 <= r <= Len(text), and a result of match_bitap_ is -1 or an index
\* before the end of the text.
MatchInText ==
    pc = "match_main" /\ ret.error = ""
    => \/ ret.value = -1
       \/ /\ 0 <= ret.value
          /\ ret.value <= Len(match_text)
          /\ BitapCalled => ret.value < Len(match_text)

\* match_bitap_ has searched from the end of the text and has found a match
\* so near the end that the pattern reaches beyond it.
MatchInTextWitness ==
    /\ pc = "match_main"
    /\ ret.error = ""
    /\ BitapCalled
    /\ SearchedAround = Len(match_text)
    /\ ret.value >= 0
    /\ ret.value + Len(match_pattern) > Len(match_text)

\* The pattern occurs without error at x after the searched location and at
\* the same distance before it, no occurrence is nearer, the score of the
\* two is within Match_Threshold and less than that of any match with an
\* error: two candidates of identical score at the lowest error level, of
\* which the sweep from the right reaches x first.
TieAt(x) ==
    /\ x > SearchedAround
    /\ OccursAt(match_text, match_pattern, x)
    /\ OccursAt(match_text, match_pattern, 2 * SearchedAround - x)
    /\ \A y \in 0..Len(match_text) :
           OccursAt(match_text, match_pattern, y)
           => abs(y - SearchedAround) >= x - SearchedAround
    /\ Match_Distance # 0
    /\ LessEq(match_bitapScore_(0, x, match_pattern, SearchedAround),
              Match_Threshold)
    /\ ~LessEq(match_bitapScore_(1, SearchedAround, match_pattern,
                                 SearchedAround),
               match_bitapScore_(0, x, match_pattern, SearchedAround))

\* C23 as stated: of two candidates of identical score match_bitap_ returns
\* the one the right-to-left sweep reaches first; the later candidate never
\* replaces it.
MatchTieFirst ==
    pc = "match_main"
    => \A x \in 0..Len(match_text) :
           TieAt(x) => ret.error = "" /\ ret.value = x

\* C23, amended: of two candidates of identical score match_bitap_ returns
\* the one the right-to-left sweep reaches last: the occurrence before the
\* searched location replaces the one at the same distance after it.
MatchTieLast ==
    pc = "match_main"
    => \A x \in 0..Len(match_text) :
           TieAt(x)
           => ret.error = "" /\ ret.value = 2 * SearchedAround - x

\* match_main has returned the occurrence before loc although one at the
\* same distance after loc was reached first.
MatchTieLastWitness ==
    /\ pc = "match_main"
    /\ BitapCalled
    /\ \E x \in 0..Len(match_text) :
           TieAt(x) /\ ret.value = 2 * SearchedAround - x


-----------------------------------------------------------------------------
(* The calls of diff_cleanupSemanticScore_                                 *)

\* "\n", "\r", " " and "a"
ScoreAlphabet == {10, 13, 32, 97}

\* The longest text on a side of the boundary.
MaxScoreText == 3

InitScore ==
    /\ Diff_Timeout = 1
    /\ Diff_EditCost = 4
    /\ Match_Threshold = Half
    /\ Match_Distance = 1000
    /\ match_text = <<>>
    /\ match_pattern = <<>>
    /\ pc = "ready"
    /\ text1 \in Strings(ScoreAlphabet, MaxScoreText)
    /\ text2 \in Strings(ScoreAlphabet, MaxScoreText)
    /\ opt_checklines = <<>>
    /\ opt_deadline = <<>>
    /\ now = 1
    /\ diffs = <<>>
    /\ delta = <<>>
    /\ loc = 0
    /\ ret = <<>>
    /\ expired = FALSE

\* ret = diff_cleanupSemanticScore_(text1, text2)
CleanupSemanticScore ==
    /\ pc = "ready"
    /\ ReturnedValue("diff_cleanupSemanticScore_",
                     diff_cleanupSemanticScore_(text1, text2))

SpecScore == InitScore /\ [][CleanupSemanticScore]_vars

\* The text ends with a blank line: newline, optional carriage return,
\* newline.
EndsWithBlankLine(s) ==
    \E blank \in {<<10, 10>>, <<10, 13, 10>>} :
        /\ Len(s) >= Len(blank)
        /\ SubSeq(s, Len(s) - Len(blank) + 1, Len(s)) = blank

\* The text begins with a blank line: two newlines, each after an optional
\* carriage return.
BeginsWithBlankLine(s) ==
    \E blank \in {<<10, 10>>, <<13, 10, 10>>, <<10, 13, 10>>,
                  <<13, 10, 13, 10>>} :
        /\ Len(s) >= Len(blank)
        /\ SubSeq(s, 1, Len(blank)) = blank

\* C25 as stated: for non-empty one and two diff_cleanupSemanticScore_
\* returns 5 only when one ends with a blank line and two begins with a
\* blank line; a blank line on one side only does not score 5.
ScoreFiveBothSides ==
    pc = "diff_cleanupSemanticScore_" /\ text1 # <<>> /\ text2 # <<>>
    => (ret = 5 => EndsWithBlankLine(text1) /\ BeginsWithBlankLine(text2))

\* C25, amended: for non-empty one and two diff_cleanupSemanticScore_
\* returns 5 exactly when one ends with a blank line or two begins with a
\* blank line; a blank line on one side is enough.
ScoreFiveEitherSide ==
    pc = "diff_cleanupSemanticScore_" /\ text1 # <<>> /\ text2 # <<>>
    => (ret = 5 <=> EndsWithBlankLine(text1) \/ BeginsWithBlankLine(text2))

\* A score of 5 at a boundary with a blank line before it and none after.
ScoreFiveEitherSideWitness ==
    /\ pc = "diff_cleanupSemanticScore_"
    /\ ret = 5
    /\ EndsWithBlankLine(text1)
    /\ text2 # <<>>
    /\ ~BeginsWithBlankLine(text2)


-----------------------------------------------------------------------------
(* The calls of diff_linesToChars_                                         *)

\* "a\n", "b\n" and "\n"
EndedLines == {<<97, 10>>, <<98, 10>>, <<10>>}

\* The last line of a text, when it has no "\n": none, "hasOwnProperty" or
\* "__proto__".
LastLines == {<<>>, HasOwnProperty, Proto}

\* The most lines ended by "\n" in a text.
MaxLineCount == 3

\* The sizes of the line table, scaled down from 40000 and 65535 so that a
\* text of three lines fills it.
SmallLines1 == 2
SmallLines2 == 3

RECURSIVE JoinLines(_)
JoinLines(ls) == IF ls = <<>> THEN <<>> ELSE Head(ls) \o JoinLines(Tail(ls))

LineTexts ==
    {JoinLines(ls) \o last : ls \in Strings(EndedLines, MaxLineCount),
                             last \in LastLines}

InitLines ==
    /\ Diff_Timeout = 1
    /\ Diff_EditCost = 4
    /\ Match_Threshold = Half
    /\ Match_Distance = 1000
    /\ match_text = <<>>
    /\ match_pattern = <<>>
    /\ pc = "ready"
    /\ text1 \in LineTexts
    /\ text2 \in LineTexts
    /\ opt_checklines = <<>>
    /\ opt_deadline = <<>>
    /\ now = 1
    /\ diffs = <<>>
    /\ delta = <<>>
    /\ loc = 0
    /\ ret = <<>>
    /\ expired = FALSE

\* ret = diff_linesToChars_(text1, text2), with the line table of the code or
\* the small one.
LinesToChars ==
    /\ pc = "ready"
    /\ \E sizes \in {<<SmallLines1, SmallLines2>>, <<40000, 65535>>} :
           ReturnedValue("diff_linesToChars_",
                         linesToChars(text1, text2, sizes[1], sizes[2]))

SpecLines == InitLines /\ [][LinesToChars]_vars

\* The code units of chars index lineArray above its element 0, and the
\* lines they index give txt.
Decodes(chars, lineArray, txt) ==
    /\ \A j \in 1..Len(chars) : chars[j] >= 1 /\ chars[j] < Len(lineArray)
    /\ charsToLinesJoin(chars, lineArray, 1) = txt

\* C29: diff_linesToChars_(text1, text2) returns chars1, chars2 and
\* lineArray such that the lines lineArray[code] of the code units of chars1
\* give text1 and those of chars2 give text2, also when the line table is
\* full; lineArray[0] is "" and no code unit is 0.
LinesLossless ==
    pc = "diff_linesToChars_"
    => /\ ret.error = ""
       /\ ret.lineArray[1] = <<>>
       /\ Decodes(ret.chars1, ret.lineArray, text1)
       /\ Decodes(ret.chars2, ret.lineArray, text2)


-----------------------------------------------------------------------------
(* The calls of diff_cleanupSemantic and diff_cleanupEfficiency            *)

\* "", "a" and "ab", the texts of the segments of a longer script.
CleanupTexts == {<<>>, <<97>>, <<97, 98>>}

\* The most segments of a longer script.
MaxLong == 4

LongScripts ==
    UNION {[1..k -> {DIFF_DELETE, DIFF_INSERT, DIFF_EQUAL} \X CleanupTexts] :
               k \in (MaxSegments + 1)..MaxLong}

\* Values of Diff_EditCost: the default, and one under which "ab" is no
\* candidate.
EditCosts == {2, 4}

InitCleanup ==
    /\ Diff_Timeout = 1
    /\ Diff_EditCost \in EditCosts
    /\ Match_Threshold = Half
    /\ Match_Distance = 1000
    /\ match_text = <<>>
    /\ match_pattern = <<>>
    /\ pc = "ready"
    /\ diffs \in Scripts \cup LongScripts
    /\ text1 = diff_text1(diffs)
    /\ text2 = diff_text2(diffs)
    /\ opt_checklines = <<>>
    /\ opt_deadline = <<>>
    /\ now = 1
    /\ delta = <<>>
    /\ loc = 0
    /\ ret = <<>>
    /\ expired = FALSE

\* A cleanup has changed the script in place and is at the position
\* position; ret holds its counter equalitiesLength as its scan loop left it
\* (the cleanups return nothing).
CleanedUp(position, script, equalitiesLength) ==
    /\ diffs' = script
    /\ ret' = [equalitiesLength |-> equalitiesLength]
    /\ pc' = position
    /\ UNCHANGED <<Match_Threshold, Match_Distance, match_text, match_pattern>>
    /\ UNCHANGED <<Diff_Timeout, Diff_EditCost, text1, text2, opt_checklines,
                   opt_deadline, now, delta, loc, expired>>

\* diff_cleanupSemantic(diffs) with the result r: the call has returned, or
\* it stays in the loop of diff_cleanupSemanticLossless.
SemanticCleanedUp(r) ==
    CleanedUp(IF r.returns THEN "diff_cleanupSemantic"
              ELSE "diff_cleanupSemanticLossless",
              r.diffs, r.equalitiesLength)

\* diff_cleanupSemantic(diffs): the script is changed in place.
CleanupSemantic ==
    /\ pc = "ready"
    /\ SemanticCleanedUp(diff_cleanupSemantic(diffs))

\* diff_cleanupEfficiency(diffs) with the result r.
EfficiencyCleanedUp(r) ==
    CleanedUp("diff_cleanupEfficiency", r.diffs, r.equalitiesLength)

\* diff_cleanupEfficiency(diffs): the script is changed in place.
CleanupEfficiency ==
    /\ pc = "ready"
    /\ EfficiencyCleanedUp(diff_cleanupEfficiency(diffs))

NextCleanup == CleanupSemantic \/ CleanupEfficiency

SpecCleanup == InitCleanup /\ [][NextCleanup]_vars

\* C26: diff_cleanupSemantic preserves both texts: for every script,
\* diff_text1 and diff_text2 of the script after the call (the elimination of
\* equalities, the lossless shift and the extraction of overlaps) are those
\* of the script before the call.
SemanticKeepsTexts ==
    pc = "diff_cleanupSemantic" => Rebuilds(diffs, text1, text2)

\* diff_cleanupSemantic has returned a script with more segments than any
\* script it was given: it has added segments.
SemanticKeepsTextsWitness ==
    /\ pc = "diff_cleanupSemantic"
    /\ Rebuilds(diffs, text1, text2)
    /\ Len(diffs) > MaxLong

\* C28: diff_cleanupEfficiency preserves both texts: for every script and
\* every Diff_EditCost, diff_text1 and diff_text2 of the script after the
\* call are those of the script before the call, also when the scan pointer
\* was set back.
EfficiencyKeepsTexts ==
    pc = "diff_cleanupEfficiency" => Rebuilds(diffs, text1, text2)

\* diff_cleanupEfficiency has split the only equality on its stack, which
\* sets the pointer back to the start of the script, and has returned.
EfficiencyKeepsTextsWitness ==
    /\ pc = "diff_cleanupEfficiency"
    /\ Rebuilds(diffs, text1, text2)
    /\ ret.equalitiesLength < 0

\* An edit op lies in the run of edits just before, or just after, segment i.
EditBefore(ds, i, op) ==
    \E j \in 1..(i - 1) :
        ds[j][1] = op /\ \A k \in j..(i - 1) : ds[k][1] # DIFF_EQUAL

EditAfter(ds, i, op) ==
    \E j \in (i + 1)..Len(ds) :
        ds[j][1] = op /\ \A k \in (i + 1)..j : ds[k][1] # DIFF_EQUAL

\* How many of insert before, delete before, insert after and delete after
\* segment i has.
EditsAround(ds, i) ==
    Number(EditBefore(ds, i, DIFF_INSERT))
    + Number(EditBefore(ds, i, DIFF_DELETE))
    + Number(EditAfter(ds, i, DIFF_INSERT))
    + Number(EditAfter(ds, i, DIFF_DELETE))

\* Segment i is an equality that diff_cleanupEfficiency is to purge.
Purgeable(ds, i) ==
    /\ ds[i][1] = DIFF_EQUAL
    /\ Len(ds[i][2]) < Diff_EditCost
    /\ \/ EditsAround(ds, i) = 4
       \/ 2 * Len(ds[i][2]) < Diff_EditCost /\ EditsAround(ds, i) = 3

\* C24: the script returned by diff_cleanupEfficiency has no purgeable
\* equality: no EQUAL shorter than Diff_EditCost with an insertion and a
\* deletion in the run of edits on each side, and no EQUAL shorter than
\* Diff_EditCost / 2 with exactly three of insert before, delete before,
\* insert after and delete after.
EfficiencyPurgesAll ==
    pc = "diff_cleanupEfficiency"
    => \A i \in 1..Len(diffs) : ~Purgeable(diffs, i)

\* C22: in the scan loops of diff_cleanupSemantic and diff_cleanupEfficiency
\* the counter equalitiesLength is never negative, so that the top of the
\* stack is read at an index from 0 to equalitiesLength - 1.
StackSizeNotNegative ==
    pc \in {"diff_cleanupSemantic", "diff_cleanupSemanticLossless",
            "diff_cleanupEfficiency"}
    => ret.equalitiesLength >= 0

----------------------------------------------------------------------------
(* The calls of diff_toDelta and diff_fromDelta                            *)

\* The code units of the texts that are diffed and encoded: "a", "%", and
\* the surrogates of U+1F600 and U+1F601, which have the lead surrogate in
\* common.
DeltaAlphabet == {97, 37, 55357, 56832, 56833}

\* The longest text that is diffed and encoded.
MaxDeltaText == 3

\* A text of well-formed UTF-16: every surrogate has its partner.
WellFormed(s) ==
    \A k \in 1..Len(s) :
        /\ LeadSurrogate(s[k]) => k < Len(s) /\ TrailSurrogate(s[k + 1])
        /\ TrailSurrogate(s[k]) => k > 1 /\ LeadSurrogate(s[k - 1])

\* The well-formed texts that are diffed and encoded.
DeltaTexts == {s \in Strings(DeltaAlphabet, MaxDeltaText) : WellFormed(s)}

InitDelta ==
    /\ Diff_Timeout \in {0, 1}
    /\ Diff_EditCost = 4
    /\ Match_Threshold = Half
    /\ Match_Distance = 1000
    /\ match_text = <<>>
    /\ match_pattern = <<>>
    /\ pc = "ready"
    /\ text1 \in DeltaTexts
    /\ text2 \in DeltaTexts
    /\ opt_checklines = <<>>
    /\ opt_deadline = <<>>
    /\ now = 1
    /\ diffs = <<>>
    /\ delta = <<>>
    /\ loc = 0
    /\ ret = <<>>
    /\ expired = FALSE

\* delta = diff_toDelta(diffs), on the script diff_main returned; ret is the
\* error when the call throws.
ToDelta ==
    /\ pc = "diff_main"
    /\ ret' = diff_toDelta(diffs)
    /\ delta' = ret'.value
    /\ pc' = "diff_toDelta"
    /\ UNCHANGED <<Match_Threshold, Match_Distance, match_text, match_pattern>>
    /\ UNCHANGED Diff_EditCost
    /\ UNCHANGED <<Diff_Timeout, text1, text2, opt_checklines, opt_deadline,
                   now, diffs, loc, expired>>

\* ret = diff_fromDelta(text1, delta), on the delta diff_toDelta returned.
FromDelta ==
    /\ pc = "diff_toDelta"
    /\ ret.error = ""
    /\ ret' = diff_fromDelta(text1, delta)
    /\ pc' = "diff_fromDelta"
    /\ UNCHANGED <<Match_Threshold, Match_Distance, match_text, match_pattern>>
    /\ UNCHANGED Diff_EditCost
    /\ UNCHANGED <<Diff_Timeout, text1, text2, opt_checklines, opt_deadline,
                   now, diffs, delta, loc, expired>>

NextDelta == DiffMain \/ ToDelta \/ FromDelta

SpecDelta == InitDelta /\ [][NextDelta]_vars

\* C8: for all texts a and b, diff_fromDelta(a, diff_toDelta(diff_main(a,
\* b))) is diff_main(a, b) segment for segment: diff_toDelta returns a
\* delta, and diff_fromDelta returns from it the operations and the texts
\* of the script in the same order.
DeltaRoundTrip ==
    /\ pc = "diff_toDelta" => ret.error = ""
    /\ pc = "diff_fromDelta" => ret = [error |-> "", value |-> diffs]

\* The code units of the deltas that are parsed: "+", "-", "=", "0", "1",
\* "x", " ", "%" and the tab.
DeltaChars == {43, 45, 61, 48, 49, 120, 32, 37, 9}

\* The longest delta that is parsed.
MaxDelta == 4

\* The longest source text of a parsed delta.
MaxSource == 2

InitParse ==
    /\ Diff_Timeout = 1
    /\ Diff_EditCost = 4
    /\ Match_Threshold = Half
    /\ Match_Distance = 1000
    /\ match_text = <<>>
    /\ match_pattern = <<>>
    /\ pc = "ready"
    /\ text1 \in Strings({97}, MaxSource)
    /\ text2 = <<>>
    /\ opt_checklines = <<>>
    /\ opt_deadline = <<>>
    /\ now = 1
    /\ diffs = <<>>
    /\ delta \in Strings(DeltaChars, MaxDelta)
    /\ loc = 0
    /\ ret = <<>>
    /\ expired = FALSE

\* ret = diff_fromDelta(text1, delta), on any delta.
ParseDelta ==
    /\ pc = "ready"
    /\ ret' = diff_fromDelta(text1, delta)
    /\ pc' = "diff_fromDelta"
    /\ UNCHANGED <<Match_Threshold, Match_Distance, match_text, match_pattern>>
    /\ UNCHANGED Diff_EditCost
    /\ UNCHANGED <<Diff_Timeout, text1, text2, opt_checklines, opt_deadline,
                   now, diffs, delta, loc, expired>>

SpecParse == InitParse /\ [][ParseDelta]_vars

\* A plain non-negative decimal integer: one digit or more and nothing
\* else.
PlainLength(param) ==
    param # <<>> /\ \A k \in 1..Len(param) : param[k] \in 48..57

\* A "-" or "=" token whose length is negative or not numeric.
BadLengthToken(token) ==
    /\ token # <<>>
    /\ token[1] \in {45, 61}
    /\ ~PlainLength(Tail(token))

\* A token diff_fromDelta takes without an error: the blank token, an
\* insertion that decodes, or a "-" or "=" with a plain length.
GoodToken(token) ==
    \/ token = <<>>
    \/ token[1] = 43 /\ decodeURI(Tail(token)).error = ""
    \/ token[1] \in {45, 61} /\ PlainLength(Tail(token))

\* The first token that is not good is a "-" or "=" token with a bad
\* length.
FirstErrorIsBadLength(tokens) ==
    \E x \in 1..Len(tokens) :
        /\ BadLengthToken(tokens[x])
        /\ \A j \in 1..(x - 1) : GoodToken(tokens[j])

\* C9: diff_fromDelta fails with the invalid-length error for every "-" or
\* "=" token whose length is negative or not a plain non-negative decimal
\* integer, and returns no script then.
InvalidLength ==
    pc = "diff_fromDelta" /\ FirstErrorIsBadLength(split(delta))
        => ret.error = "Invalid number in diff_fromDelta"

====
